---------------------------- MODULE Spec2Model ----------------------------
(***************************************************************************)
(* A model of the camera manager of the Frigate card: the initialization   *)
(* of the cameras (CameraManager.initializeCameras) and the federated      *)
(* media queries (CameraManager._handleQuery, executeMediaQueries,         *)
(* extendMediaQueries, _sortMedia).                                        *)
(*                                                                         *)
(* JavaScript runs one continuation at a time: an action of this model is  *)
(* the code between two suspension points (await) of one asynchronous      *)
(* call, and the engines' replies arrive in any order.                     *)
(***************************************************************************)
EXTENDS Integers, Sequences, FiniteSets, TLC

(***************************************************************************)
(* Bounds of the model.                                                    *)
(***************************************************************************)
\* the camera configs handed to initializeCameras over all its calls (a call
\* with an empty list counts as one)
MaxConfigs == 3
\* the largest chunk size handed to extendMediaQueries
MaxChunkSize == 2
\* the index of the last slide of the carousel
MaxIndex == 2
\* the number of calls of one listener of the ConditionsManager
MaxCalls == 2
\* the successive cycling calls of getViewDefault that are followed
MaxCycle == 3

(***************************************************************************)
(* Values.                                                                 *)
(***************************************************************************)
\* the camera IDs a config can derive; NoID is the falsy ID (!id)
CameraIDs == {"a", "b"}
NoID == ""
\* the engine types the factory can answer; NoType is its null
EngineTypes == {"frigate", "generic"}
NoType == "null"
\* the absent engine instance (null)
NoEngine == [type |-> NoType, inst |-> 0]
\* config.triggers without automatic triggers
NoTriggers == [motion |-> FALSE, occupancy |-> FALSE]
\* no error was thrown; an error that is not a CameraInitializationError, or
\* that is thrown for no camera, carries no config (NoConfig)
NoConfig == [id |-> NoID, engine |-> NoType, normalized |-> FALSE, triggers |-> NoTriggers]
NoError == [kind |-> "none", pos |-> 0, config |-> NoConfig]

\* The camera configs a caller can pass: `id` is the camera ID that
\* getCameraID derives from the config, `engine` the type the engine factory
\* finds for it, `normalized` whether an engine has rewritten the config,
\* `triggers` the automatic triggers of the camera.
InputConfigs ==
  { [id |-> "a", engine |-> "frigate", normalized |-> FALSE, triggers |-> NoTriggers],
    [id |-> "b", engine |-> "frigate", normalized |-> FALSE, triggers |-> NoTriggers],
    [id |-> "b", engine |-> "generic", normalized |-> FALSE, triggers |-> NoTriggers],
    [id |-> NoID, engine |-> "generic", normalized |-> FALSE, triggers |-> NoTriggers],
    [id |-> "a", engine |-> NoType, normalized |-> FALSE, triggers |-> NoTriggers] }

RECURSIVE SeqsUpTo(_, _)
\* all the sequences over S of length at most n
SeqsUpTo(S, n) ==
  IF n = 0 THEN {<< >>}
  ELSE LET shorter == SeqsUpTo(S, n - 1)
       IN  shorter \cup {Append(s, x) : s \in {t \in shorter : Len(t) = n - 1}, x \in S}

VARIABLES
  store,        \* CameraManagerStore: the cameras in insertion order
  initPhase,    \* where initializeCameras stands
  batch,        \* camerasConfig of the running (or last) initializeCameras
  storeBefore,  \* the store when that call started
  task,         \* the per-camera _initializeCamera calls
  completed,    \* the order in which those calls returned
  created,      \* the engines createEngine has returned
  initError,    \* the error initializeCameras threw
  submitted,    \* configs handed to initializeCameras so far
  fetches,      \* the calls of fetchEntityList of the running (or last) initializeCameras
  qPhase,       \* where the running query operation stands
  op,           \* the facade operation that runs, or that returned last
  callerQueries,\* the query objects in the hands of the caller
  callerResults,\* the media in the hands of the caller (the prior results)
  calls,        \* the engine calls in flight
  results,      \* the results map of the running _handleQuery
  answered,     \* the engine calls of that _handleQuery that were answered with a map
  rejections,   \* the engine calls of that _handleQuery that rejected
  ext,          \* extendMediaQueries: direction, chunk size, chunk and extended queries
  ret,          \* what the operation returned
  fresh,        \* the last call of areMediaQueriesResultsFresh
  caps,         \* the last call of getAggregateCameraCapabilities
  meta,         \* the running (or last) call of getMediaMetadata
  lookup,       \* the last lookup (getCameraIDs, favoriteMedia, getMediaSeekTime)
  connected,        \* carousel: the component is in the document
  enableUpdating,   \* carousel: the component was connected once (Lit updates it from then on)
  hasUpdated,       \* carousel: the component has rendered
  updateRequested,  \* carousel: the pending update, "destroy" when a destroy property changed
  carouselOptions,  \* carousel: the startIndex of carouselOptions, if any
  _carousel,        \* carousel: the Embla instance the component holds, if any
  liveCarousels,    \* carousel: the Embla instances created and not destroyed
  _savedStartIndex, \* carousel: the saved position, or null
  _scrolling,       \* carousel: a scroll event was seen and no settle since
  _reInitOnSettle,  \* carousel: a re-init was asked for during the scroll
  throttle,         \* carousel: the state of the throttled _carouselReInitInPlace
  frames,           \* carousel: the requested animation frames (the options of their reInit)
  restore,          \* carousel: the slide that was selected at the last saving destruction
  cutOff,           \* carousel: a reInit ran on a carousel that was scrolling
  condState,        \* conditions: the state of the ConditionsManager
  listeners,        \* conditions: the registered listeners
  calledTimes,      \* conditions: how often each listener was called
  calledWith,       \* conditions: the arguments of the last call of the listeners
  partialState,     \* conditions: the argument of the setState that ran last
  evaluation,       \* conditions: the conditions evaluated last and their result
  hass,             \* card: whether the HASS object is there
  cardConfig,       \* card: the card config, if any
  hasMessage,       \* card: whether a message is set
  hasViewRelatedActions, \* card: whether the query string holds view actions
  hasView,          \* card: whether a view is set
  initialized,      \* card: the initialized aspects of the Initializer
  mandatoryPhase,   \* card: where initializeMandatory is
  mandatoryReturn,  \* card: what initializeMandatory returned
  calledAPI,        \* card: the collaborators initializeMandatory has called, in order
  isInitializedMandatory, \* card: what isInitializedMandatory returned
  viewConfig,       \* view factory: the config of the card, if loaded
  viewCameras,      \* view factory: the cameras of the store and their capabilities
  viewRet,          \* view factory: the last call of the factory and its outcome
  cycle             \* view factory: the cameras of a run of cycling getViewDefault calls

initVars == <<initPhase, batch, storeBefore, task, completed, created, initError, submitted, fetches>>
queryVars == <<qPhase, op, callerQueries, callerResults, calls, results, answered, rejections,
               ext, ret>>
facadeVars == <<fresh, caps, meta, lookup>>
cameraVars == <<store, initVars, queryVars, facadeVars>>
carouselVars == <<connected, enableUpdating, hasUpdated, updateRequested, carouselOptions, _carousel,
                  liveCarousels, _savedStartIndex, _scrolling, _reInitOnSettle, throttle, frames,
                  restore, cutOff>>
conditionsVars == <<condState, listeners, calledTimes, calledWith, partialState, evaluation>>
managerVars == <<hass, cardConfig, hasMessage, hasViewRelatedActions, hasView, initialized,
                 mandatoryPhase, mandatoryReturn, calledAPI, isInitializedMandatory>>
viewVars == <<viewConfig, viewCameras, viewRet, cycle>>
uiVars == <<carouselVars, conditionsVars, managerVars, viewVars>>
vars == <<store, initVars, queryVars, facadeVars, uiVars>>

(***************************************************************************)
(* The store.                                                              *)
(***************************************************************************)
StoreIDs(s) == {s[i].id : i \in 1..Len(s)}

hasCameraID(s, id) == id \in StoreIDs(s)

getCameraCount(s) == Len(s)

addCamera(s, id, config, engine) ==
  Append(s, [id |-> id, config |-> config, engine |-> engine])

\* the engine registered for a type: that of the camera added last
getEngineOfType(s, type) ==
  LET at == {i \in 1..Len(s) : s[i].engine.type = type}
  IN  IF at = {} THEN NoEngine
      ELSE s[CHOOSE i \in at : \A j \in at : j <= i].engine

\* getCameras().keys(): the IDs in insertion order
getCameraIDs(s) == [i \in 1..Len(s) |-> s[i].id]

(***************************************************************************)
(* Initialization.                                                         *)
(***************************************************************************)
getCameraID(config) == config.id

\* engine.initializeCamera rewrites the config object it is given and returns
\* it normalized
EngineInitializeCamera(configCopy) == [configCopy EXCEPT !.normalized = TRUE]

\* cloneDeep(inputCameraConfig): a new object of the same value, where the
\* caller's own object would be [object |-> "input", ...]
SameObject(config) == [object |-> "input", value |-> config]
cloneDeep(config) == [object |-> "copy", value |-> config]

Cost(camerasConfig) == IF camerasConfig = << >> THEN 1 ELSE Len(camerasConfig)

Settled(t) == \A i \in DOMAIN t : t[i].pc \in {"done", "failed"}

\* config.triggers.motion || config.triggers.occupancy
hasAutoTriggersMotionOnly(config) == config.triggers.motion
hasAutoTriggers(config) == config.triggers.motion \/ config.triggers.occupancy

\* allPromises(camerasConfig, ...): every _initializeCamera is started and
\* waits for the engine factory
StartAll(camerasConfig) ==
  [i \in 1..Len(camerasConfig) |->
     [pc |-> "getEngineForCamera", engine |-> NoEngine, initializedConfig |-> camerasConfig[i]]]

\* initializeCameras up to its first suspension: the fetch of the entity
\* list when some camera has automatic triggers, the calls of
\* _initializeCamera otherwise
InitializeCameras(camerasConfig) ==
  /\ initPhase \in {"idle", "done", "failed"}
  /\ Settled(task)
  /\ submitted + Cost(camerasConfig) <= MaxConfigs
  /\ submitted' = submitted + Cost(camerasConfig)
  /\ batch' = camerasConfig
  /\ storeBefore' = store
  /\ completed' = << >>
  /\ initError' = NoError
  /\ IF \E i \in 1..Len(camerasConfig) : hasAutoTriggers(camerasConfig[i])
     THEN /\ initPhase' = "fetchEntityList"
          /\ fetches' = 1
          /\ task' = << >>
     ELSE /\ initPhase' = "running"
          /\ fetches' = 0
          /\ task' = StartAll(camerasConfig)
  /\ UNCHANGED <<store, created>>
  /\ UNCHANGED <<queryVars, facadeVars, uiVars>>

\* initializeCameras resumes with the entity list and starts every
\* _initializeCamera
FetchEntityListReturns ==
  /\ initPhase = "fetchEntityList"
  /\ initPhase' = "running"
  /\ task' = StartAll(batch)
  /\ UNCHANGED <<store, batch, storeBefore, completed, created, initError, submitted, fetches>>
  /\ UNCHANGED <<queryVars, facadeVars, uiVars>>

\* fetchEntityList rejects, and initializeCameras with it
FetchEntityListRejects ==
  /\ initPhase = "fetchEntityList"
  /\ initPhase' = "failed"
  /\ initError' = [kind |-> "fetch_error", pos |-> 0, config |-> NoConfig]
  /\ UNCHANGED <<store, batch, storeBefore, task, completed, created, submitted, fetches>>
  /\ UNCHANGED <<queryVars, facadeVars, uiVars>>

\* a rejection of one _initializeCamera rejects initializeCameras, once:
\* `config` is the config the error carries
RejectLast(kind, i, config) ==
  /\ initPhase' = "failed"
  /\ initError' = [kind |-> kind, pos |-> i, config |-> config]
Reject(kind, i, config) ==
  IF initPhase = "running"
  THEN /\ initPhase' = "failed"
       /\ initError' = [kind |-> kind, pos |-> i, config |-> config]
  ELSE UNCHANGED <<initPhase, initError>>

\* _initializeCamera(i) resumes with the engine type
GetEngineForCameraReturns(i) ==
  /\ i \in DOMAIN task
  /\ task[i].pc = "getEngineForCamera"
  /\ LET engineType == batch[i].engine
         engine == getEngineOfType(store, engineType)
     IN  IF engineType = NoType
         THEN /\ task' = [task EXCEPT ![i].pc = "failed"]
              /\ Reject("no_camera_engine", i, batch[i])
         ELSE /\ IF engine # NoEngine
                 THEN task' = [task EXCEPT ![i].pc = "initializeCamera", ![i].engine = engine]
                 ELSE task' = [task EXCEPT ![i].pc = "createEngine"]
              /\ UNCHANGED <<initPhase, initError>>
  /\ UNCHANGED <<store, batch, storeBefore, completed, created, submitted, fetches>>
  /\ UNCHANGED <<queryVars, facadeVars, uiVars>>

\* the identity of the object createEngine returns to the i-th camera of the
\* running call: a new one for every call of createEngine
NewInstance(i) == submitted - Len(batch) + i

\* _initializeCamera(i) resumes with the engine the factory created
CreateEngineReturns(i) ==
  /\ i \in DOMAIN task
  /\ task[i].pc = "createEngine"
  /\ LET engine == [type |-> batch[i].engine, inst |-> NewInstance(i)]
     IN  /\ created' = created \cup {engine}
         /\ task' = [task EXCEPT ![i].pc = "initializeCamera", ![i].engine = engine]
  /\ UNCHANGED <<store, initPhase, batch, storeBefore, completed, initError, submitted, fetches>>
  /\ UNCHANGED <<queryVars, facadeVars, uiVars>>

\* the store when one _initializeCamera returns its engine and its
\* initialized config: allPromises gathers them, nothing is added yet
AddedOnReturn(s, initializedConfig, engine) ==
  addCamera(s, getCameraID(initializedConfig), initializedConfig, engine)
Gathered(s, initializedConfig, engine) == s

\* _initializeCamera(i) resumes with the initialized config and returns
\* (the engine rewrites the object it was handed: a rewrite of the caller's
\* own object would show in camerasConfig)
InitializeCameraReturns(i) ==
  /\ i \in DOMAIN task
  /\ task[i].pc = "initializeCamera"
  /\ LET argument == cloneDeep(batch[i])
         initializedConfig == EngineInitializeCamera(argument.value)
     IN  /\ task' = [task EXCEPT ![i].pc = "done", ![i].initializedConfig = initializedConfig]
         /\ batch' = IF argument.object = "input"
                     THEN [batch EXCEPT ![i] = initializedConfig]
                     ELSE batch
         /\ store' = Gathered(store, initializedConfig, task[i].engine)
  /\ completed' = Append(completed, i)
  /\ UNCHANGED <<initPhase, storeBefore, created, initError, submitted, fetches>>
  /\ UNCHANGED <<queryVars, facadeVars, uiVars>>

\* getEngineForCamera, createEngine or engine.initializeCamera rejects with
\* an error of its own, and _initializeCamera(i) with it
GetEngineForCameraRejects(i) ==
  /\ i \in DOMAIN task
  /\ task[i].pc = "getEngineForCamera"
  /\ task' = [task EXCEPT ![i].pc = "failed"]
  /\ Reject("engine_error", i, NoConfig)
  /\ UNCHANGED <<store, batch, storeBefore, completed, created, submitted, fetches>>
  /\ UNCHANGED <<queryVars, facadeVars, uiVars>>

CreateEngineRejects(i) ==
  /\ i \in DOMAIN task
  /\ task[i].pc = "createEngine"
  /\ task' = [task EXCEPT ![i].pc = "failed"]
  /\ Reject("engine_error", i, NoConfig)
  /\ UNCHANGED <<store, batch, storeBefore, completed, created, submitted, fetches>>
  /\ UNCHANGED <<queryVars, facadeVars, uiVars>>

InitializeCameraRejects(i) ==
  /\ i \in DOMAIN task
  /\ task[i].pc = "initializeCamera"
  /\ task' = [task EXCEPT ![i].pc = "failed"]
  /\ Reject("engine_error", i, NoConfig)
  /\ UNCHANGED <<store, batch, storeBefore, completed, created, submitted, fetches>>
  /\ UNCHANGED <<queryVars, facadeVars, uiVars>>

\* the order of the results of allPromises: the order of the input list
ResultsInCompletionOrder(n, done) == done
ResultsOrder(n, done) == [i \in 1..n |-> i]

\* the duplicate check of the additions (this._store.hasCameraID(id))
IsDuplicateNever(s, id) == FALSE
IsDuplicate(s, id) == hasCameraID(s, id)

\* the test of the derived camera ID (!id)
IsMissingIDNever(id) == FALSE
IsMissingID(id) == id = NoID

RECURSIVE AddResults(_, _, _, _)
\* results.forEach: the additions to the store in result order, up to the
\* first throw
AddResults(s, t, cfgs, order) ==
  IF order = << >> THEN [store |-> s, error |-> NoError]
  ELSE LET i == Head(order)
           id == getCameraID(t[i].initializedConfig)
       IN  IF IsMissingID(id)
           THEN [store |-> s, error |-> [kind |-> "no_camera_id", pos |-> i, config |-> cfgs[i]]]
           ELSE IF IsDuplicate(s, id)
           THEN [store |-> s, error |-> [kind |-> "duplicate_camera_id", pos |-> i, config |-> cfgs[i]]]
           ELSE AddResults(addCamera(s, id, t[i].initializedConfig, t[i].engine), t, cfgs, Tail(order))

\* a variant of the resumption that takes the additions back when one of
\* them throws
ApplyResultsRolledBack ==
  /\ initPhase = "running"
  /\ \A i \in DOMAIN task : task[i].pc = "done"
  /\ LET r == AddResults(store, task, batch, ResultsOrder(Len(batch), completed))
     IN  /\ store' = IF r.error # NoError THEN store ELSE r.store
         /\ IF r.error # NoError
            THEN /\ initError' = r.error
                 /\ initPhase' = "failed"
            ELSE IF getCameraCount(r.store) = 0
            THEN /\ initError' = [NoError EXCEPT !.kind = "no_cameras"]
                 /\ initPhase' = "failed"
            ELSE /\ initError' = NoError
                 /\ initPhase' = "done"
  /\ UNCHANGED <<batch, storeBefore, task, completed, created, submitted, fetches>>
  /\ UNCHANGED <<queryVars, facadeVars, uiVars>>

\* initializeCameras resumes after allPromises: every camera returned
ApplyResults ==
  /\ initPhase = "running"
  /\ \A i \in DOMAIN task : task[i].pc = "done"
  /\ LET r == AddResults(store, task, batch, ResultsOrder(Len(batch), completed))
     IN  /\ store' = r.store
         /\ IF r.error # NoError
            THEN /\ initError' = r.error
                 /\ initPhase' = "failed"
            ELSE IF getCameraCount(r.store) = 0
            THEN /\ initError' = [NoError EXCEPT !.kind = "no_cameras"]
                 /\ initPhase' = "failed"
            ELSE /\ initError' = NoError
                 /\ initPhase' = "done"
  /\ UNCHANGED <<batch, storeBefore, task, completed, created, submitted, fetches>>
  /\ UNCHANGED <<queryVars, facadeVars, uiVars>>

isInitialized == getCameraCount(store) > 0

(***************************************************************************)
(* Queries, results and media.                                             *)
(***************************************************************************)
\* an absent optional value (undefined / null) and a present one
None == << >>
Some(x) == <<x>>

\* the QueryType / QueryResultsType discriminants
MediaQueryTypes == {"Event", "Recording"}
QueryTypes == MediaQueryTypes \cup {"RecordingSegments"}

\* the identity of a query object: one the caller made, the per-engine copy
\* of _handleQuery, the chunk copy or the extended copy of extendMediaQueries
CallerObject(i) == [kind |-> "caller", i |-> i, inst |-> 0]
CloneObject(i, engine) == [kind |-> "clone", i |-> i, inst |-> engine.inst]
ChunkObject(i) == [kind |-> "chunk", i |-> i, inst |-> 0]
ExtendedObject(i) == [kind |-> "extended", i |-> i, inst |-> 0]

\* media.getID() of a media item without identity
NoMediaID == "null"

\* store.getEnginesForCameraIDs: the engines that own some of the IDs, each
\* with the IDs it owns; IDs that no engine owns are dropped
getEnginesForCameraIDs(s, cameraIDs) ==
  LET owners == {i \in 1..Len(s) : s[i].id \in cameraIDs}
  IN  {[engine |-> s[i].engine,
        cameraIDs |-> {s[j].id : j \in {k \in owners : s[k].engine = s[i].engine}}] : i \in owners}

QueryClassifier_isEventQuery(query) == query.type = "Event"
QueryClassifier_isRecordingQuery(query) == query.type = "Recording"
QueryClassifier_isRecordingSegmentsQuery(query) == query.type = "RecordingSegments"
QueryResultClassifier_isEventQueryResult(result) == result.type = "Event"
QueryResultClassifier_isRecordingQuery(result) == result.type = "Recording"

\* { ...query, cameraIDs: engines.get(engine) }: a new object for one engine
RescopedKeepsCameraIDs(query, i, owned) == [query EXCEPT !.oid = CloneObject(i, owned.engine)]
Rescoped(query, i, owned) ==
  [query EXCEPT !.oid = CloneObject(i, owned.engine), !.cameraIDs = owned.cameraIDs]

\* the engine method processEngineQuery calls for a query
EngineMethodAlwaysEvents(query) == "getEvents"
EngineMethod(query) ==
  IF QueryClassifier_isEventQuery(query) THEN "getEvents"
  ELSE IF QueryClassifier_isRecordingQuery(query) THEN "getRecordings"
  ELSE IF QueryClassifier_isRecordingSegmentsQuery(query) THEN "getRecordingSegments"
  ELSE "none"

\* processQuery of every query, up to the suspension: one engine call per
\* query and engine that owns cameras of it
DispatchToEveryEngine(queries) ==
  UNION {{[i |-> i, engine |-> engine, method |-> EngineMethod(queries[i]),
           query |-> Rescoped(queries[i], i,
                              [engine |-> engine,
                               cameraIDs |-> {store[k].id : k \in {j \in 1..Len(store) :
                                                /\ store[j].engine = engine
                                                /\ store[j].id \in queries[i].cameraIDs}}])]
            : engine \in {store[k].engine : k \in 1..Len(store)}}
           : i \in 1..Len(queries)}
Dispatch(queries) ==
  UNION {{[i |-> i, engine |-> owned.engine, method |-> EngineMethod(queries[i]),
           query |-> Rescoped(queries[i], i, owned)]
            : owned \in getEnginesForCameraIDs(store, queries[i].cameraIDs)}
           : i \in 1..Len(queries)}

\* Map.set: a new key is added last, a known key keeps its place
MapSetOverwrites(map, key, value) == <<[key |-> key, value |-> value]>>
MapSet(map, key, value) ==
  IF \E k \in 1..Len(map) : map[k].key = key
  THEN [k \in 1..Len(map) |-> IF map[k].key = key THEN [key |-> key, value |-> value] ELSE map[k]]
  ELSE Append(map, [key |-> key, value |-> value])

\* the engine's null answer
NullResult == [type |-> "null", engine |-> NoType, payload |-> << >>]

\* The answers an engine can give to a call: null, or a map with one entry,
\* keyed by the query object it was handed, of the result type of the method
\* and tagged with the engine's type; `payload` lists the media (identity and
\* start time) the engine makes of the result.
EngineResults(c, payloads) ==
  {NullResult} \cup
  {[type |-> c.query.type, engine |-> c.engine.type, payload |-> p] : p \in payloads}

\* engine.generateMediaFromEvents / generateMediaFromRecordings: new ViewMedia
\* objects for the payload of one result
GenerateMedia(gen, query, result) ==
  [p \in 1..Len(result.payload) |->
     [obj |-> [gen |-> gen, of |-> query.oid, pos |-> p],
      id |-> result.payload[p].id,
      start |-> result.payload[p].start]]

RECURSIVE Flatten(_)
Flatten(seqs) == IF seqs = << >> THEN << >> ELSE Head(seqs) \o Flatten(Tail(seqs))

\* the media of one entry of the results map: of an engine in the store and
\* of a query and a result of the same media type
EntryMediaOfAnyType(gen, entry) ==
  IF getEngineOfType(store, entry.value.engine) = NoEngine THEN << >>
  ELSE GenerateMedia(gen, entry.key, entry.value)
EntryMedia(gen, entry) ==
  IF getEngineOfType(store, entry.value.engine) = NoEngine THEN << >>
  ELSE IF \/ QueryClassifier_isEventQuery(entry.key) /\ QueryResultClassifier_isEventQueryResult(entry.value)
          \/ QueryClassifier_isRecordingQuery(entry.key) /\ QueryResultClassifier_isRecordingQuery(entry.value)
       THEN GenerateMedia(gen, entry.key, entry.value)
       ELSE << >>

\* mediaArray of _convertQueryResultsToMedia: the media of the entries, in the
\* order of the map
MediaArray(gen, map) == Flatten([k \in 1..Len(map) |-> EntryMedia(gen, map[k])])

\* the iteratee of uniqBy: media.getID() ?? media
MediaKeyIDOnly(media) == <<"id", media.id>>
MediaKey(media) ==
  IF media.id # NoMediaID THEN <<"id", media.id>> ELSE <<"object", media.obj>>

RECURSIVE UniqFrom(_, _)
\* the items of the array whose key is not among `seen`, first occurrence only
UniqFrom(array, seen) ==
  IF array = << >> THEN << >>
  ELSE IF MediaKey(Head(array)) \in seen THEN UniqFrom(Tail(array), seen)
  ELSE <<Head(array)>> \o UniqFrom(Tail(array), seen \cup {MediaKey(Head(array))})

\* an array left as it is
KeepAll(array) == array

\* lodash uniqBy: the first item of every key, in the order of the array
uniqBy(array) == UniqFrom(array, {})

\* lodash compareAscending on start times: null sorts after every date
CompareDescending(value, other) ==
  IF value = other THEN 0
  ELSE IF value = None THEN -1
  ELSE IF other = None THEN 1
  ELSE IF value[1] > other[1] THEN -1
  ELSE IF value[1] < other[1] THEN 1 ELSE 0
compareAscending(value, other) ==
  IF value = other THEN 0
  ELSE IF value = None THEN 1
  ELSE IF other = None THEN -1
  ELSE IF value[1] > other[1] THEN 1
  ELSE IF value[1] < other[1] THEN -1 ELSE 0

\* where a stable sort puts an item among those sorted before it: behind the
\* items that do not compare greater
InsertBeforeEqual(sorted, media) ==
  LET before == {k \in 0..Len(sorted) :
                   \A j \in 1..k : compareAscending(sorted[j].start, media.start) < 0}
      at == CHOOSE k \in before : \A j \in before : j <= k
  IN  SubSeq(sorted, 1, at) \o <<media>> \o SubSeq(sorted, at + 1, Len(sorted))
Insert(sorted, media) ==
  LET before == {k \in 0..Len(sorted) :
                   \A j \in 1..k : compareAscending(sorted[j].start, media.start) <= 0}
      at == CHOOSE k \in before : \A j \in before : j <= k
  IN  SubSeq(sorted, 1, at) \o <<media>> \o SubSeq(sorted, at + 1, Len(sorted))

RECURSIVE SortInto(_, _)
SortInto(sorted, array) ==
  IF array = << >> THEN sorted ELSE SortInto(Insert(sorted, Head(array)), Tail(array))

\* lodash orderBy(array, media => media.getStartTime(), 'asc'): a stable sort
orderBy(array) == SortInto(<< >>, array)

DedupOnly(mediaArray) == uniqBy(mediaArray)
_sortMedia(mediaArray) == orderBy(uniqBy(mediaArray))

_convertQueryResultsToMedia(gen, map) == _sortMedia(MediaArray(gen, map))

\* getTimeFromResults of extendMediaQueries
StartTimes(media) == {media[k].start[1] : k \in {j \in 1..Len(media) : media[j].start # None}}

getTimeFromResults(want, media) ==
  LET times == StartTimes(media)
  IN  IF times = {} THEN None
      ELSE IF want = "earliest" THEN Some(CHOOSE t \in times : \A u \in times : t <= u)
      ELSE Some(CHOOSE t \in times : \A u \in times : t >= u)

\* newChunkQuery of extendMediaQueries for one query
NewChunkQueryFromLatest(query, i, media, direction, chunkSize) ==
  LET latestResult == getTimeFromResults("latest", media)
  IN  [query EXCEPT !.oid = ChunkObject(i), !.limit = Some(chunkSize),
                    !.start = IF direction = "later" /\ latestResult # None THEN latestResult ELSE @,
                    !.end = IF direction = "earlier" /\ latestResult # None THEN latestResult ELSE @]
NewChunkQuery(query, i, media, direction, chunkSize) ==
  LET latestResult == getTimeFromResults("latest", media)
      earliestResult == getTimeFromResults("earliest", media)
  IN  [query EXCEPT !.oid = ChunkObject(i), !.limit = Some(chunkSize),
                    !.start = IF direction = "later" /\ latestResult # None THEN latestResult ELSE @,
                    !.end = IF direction = "earlier" /\ earliestResult # None THEN earliestResult ELSE @]

\* the extended query of extendMediaQueries for one query
ExtendedQueryOfChunk(query, i, chunkSize) ==
  [query EXCEPT !.oid = ExtendedObject(i), !.limit = Some(chunkSize)]
ExtendedQuery(query, i, chunkSize) ==
  [query EXCEPT !.oid = ExtendedObject(i),
                !.limit = Some((IF query.limit = None THEN 0 ELSE query.limit[1]) + chunkSize)]

\* results.concat(newChunkMedia)
ConcatChunkFirst(media, newChunkMedia) == newChunkMedia \o media
Concat(media, newChunkMedia) == media \o newChunkMedia

\* !newChunkMedia.length
NothingNew(media, newChunkMedia) == Len(_sortMedia(Concat(media, newChunkMedia))) = Len(media)
NoChunk(media, newChunkMedia) == Len(newChunkMedia) = 0

NoExt == [direction |-> "none", chunkSize |-> 0, newChunkQueries |-> << >>, extendedQueries |-> << >>]
NoRet == [kind |-> "none", map |-> << >>, media |-> << >>, queries |-> << >>]

\* getEvents / getRecordings / getRecordingSegments up to the suspension of
\* _handleQuery
GetQueryResults(queries) ==
  /\ qPhase \in {"idle", "returned", "rejected"}
  /\ calls = {}
  /\ qPhase' = "handling"
  /\ op' = "get"
  /\ callerQueries' = queries
  /\ callerResults' = << >>
  /\ calls' = Dispatch(queries)
  /\ results' = << >>
  /\ answered' = {}
  /\ rejections' = {}
  /\ ext' = NoExt
  /\ ret' = NoRet
  /\ UNCHANGED <<store, initVars, facadeVars, uiVars>>

\* executeMediaQueries up to the suspension of _handleQuery
ExecuteMediaQueries(queries) ==
  /\ qPhase \in {"idle", "returned", "rejected"}
  /\ calls = {}
  /\ qPhase' = "handling"
  /\ op' = "execute"
  /\ callerQueries' = queries
  /\ callerResults' = << >>
  /\ calls' = Dispatch(queries)
  /\ results' = << >>
  /\ answered' = {}
  /\ rejections' = {}
  /\ ext' = NoExt
  /\ ret' = NoRet
  /\ UNCHANGED <<store, initVars, facadeVars, uiVars>>

\* extendMediaQueries, on the queries and the media the caller holds, up to
\* the suspension of _handleQuery
ExtendMediaQueries(direction, chunkSize) ==
  /\ qPhase = "returned"
  /\ op \in {"execute", "extend"}
  /\ LET newChunkQueries == [i \in 1..Len(callerQueries) |->
                               NewChunkQuery(callerQueries[i], i, callerResults, direction, chunkSize)]
         extendedQueries == [i \in 1..Len(callerQueries) |->
                               ExtendedQuery(callerQueries[i], i, chunkSize)]
     IN  /\ ext' = [direction |-> direction, chunkSize |-> chunkSize,
                    newChunkQueries |-> newChunkQueries, extendedQueries |-> extendedQueries]
         /\ calls' = Dispatch(newChunkQueries)
  /\ qPhase' = "handling"
  /\ op' = "extend"
  /\ results' = << >>
  /\ answered' = {}
  /\ rejections' = {}
  /\ ret' = NoRet
  /\ UNCHANGED <<store, initVars, facadeVars, uiVars, callerQueries, callerResults>>

\* processEngineQuery resumes with the engine's answer and puts its entries
\* into the results map
EngineReturns(c, engineResult) ==
  /\ qPhase \in {"handling", "rejected"}
  /\ c \in calls
  /\ calls' = calls \ {c}
  /\ results' = IF engineResult = NullResult THEN results
                ELSE MapSet(results, c.query, engineResult)
  /\ answered' = IF engineResult = NullResult THEN answered
                 ELSE answered \cup {[call |-> c, result |-> engineResult]}
  /\ UNCHANGED <<store, initVars, facadeVars, uiVars, qPhase, op, callerQueries, callerResults,
                 rejections, ext, ret>>

\* a fan-out that drops the fragment of an engine call that rejects and goes
\* on with the others
EngineRejectsDropped(c) ==
  /\ qPhase \in {"handling", "rejected"}
  /\ c \in calls
  /\ calls' = calls \ {c}
  /\ rejections' = rejections \cup {c}
  /\ UNCHANGED <<store, initVars, facadeVars, uiVars, qPhase, op, callerQueries, callerResults,
                 results, answered, ext, ret>>

\* an engine call rejects: Promise.all, _handleQuery and the operation reject
\* with it at once, when none rejected before; the other calls stay in flight
EngineRejects(c) ==
  /\ qPhase \in {"handling", "rejected"}
  /\ c \in calls
  /\ calls' = calls \ {c}
  /\ rejections' = rejections \cup {c}
  /\ IF qPhase = "handling"
     THEN /\ qPhase' = "rejected"
          /\ ret' = [NoRet EXCEPT !.kind = "error"]
     ELSE UNCHANGED <<qPhase, ret>>
  /\ UNCHANGED <<store, initVars, facadeVars, uiVars, op, callerQueries, callerResults, results, answered, ext>>

\* Promise.all resolves when every promise it was handed has resolved
FirstSettled(pending) == TRUE
AllSettled(pending) == pending = {}

\* _handleQuery resumes after Promise.all and returns the map; its caller
\* goes on to its own return
HandleQueryReturns ==
  /\ qPhase = "handling"
  /\ AllSettled(calls)
  /\ qPhase' = "returned"
  /\ \/ /\ op = "get"
        /\ ret' = [NoRet EXCEPT !.kind = "map", !.map = results]
        /\ UNCHANGED callerResults
     \/ /\ op = "execute"
        /\ ret' = [NoRet EXCEPT !.kind = "media", !.media = _convertQueryResultsToMedia("execute", results)]
        /\ callerResults' = _convertQueryResultsToMedia("execute", results)
     \/ /\ op = "extend"
        /\ LET newChunkMedia == _convertQueryResultsToMedia("extend", results)
           IN  IF NoChunk(callerResults, newChunkMedia)
               THEN ret' = [NoRet EXCEPT !.kind = "null"]
               ELSE ret' = [NoRet EXCEPT !.kind = "extended", !.queries = ext.extendedQueries,
                                         !.media = _sortMedia(Concat(callerResults, newChunkMedia))]
        /\ UNCHANGED callerResults
  /\ UNCHANGED <<store, initVars, facadeVars, uiVars, op, callerQueries, calls, results, answered,
                 rejections, ext>>

(***************************************************************************)
(* The freshness of results, the aggregate capabilities and the media      *)
(* metadata.  The model runs one of these operations at a time.           *)
(***************************************************************************)
NoFresh == [kind |-> "none", queries |-> << >>, resultsTimestamp |-> 0, now |-> 0,
            maxAge |-> << >>, ret |-> TRUE]
NoCaps == [kind |-> "none", cameraIDs |-> None, engineCaps |-> << >>, ret |-> << >>]
NoMeta == [phase |-> "none", pending |-> {}, replies |-> << >>,
           what |-> {}, where |-> {}, days |-> {}, ret |-> None]
NoLookup == [op |-> "none", cameraID |-> NoID, kind |-> "none", ids |-> {}, call |-> 0, returned |-> 0]

\* the calls of engine.getQueryResultMaxAge: one per query and engine that
\* owns cameras of it, with { ...query, cameraIDs: cameraIDs }
MaxAgeCalls(queries) ==
  UNION {{[i |-> i, engine |-> owned.engine, query |-> Rescoped(queries[i], i, owned)]
            : owned \in getEnginesForCameraIDs(store, queries[i].cameraIDs)}
           : i \in 1..Len(queries)}

\* date-fns add(date, { seconds }), in seconds
add(date, seconds) == date + seconds

\* maxAgeSeconds !== null && add(resultsTimestamp, ...) < now
IsStaleAtMaxAge(maxAgeSeconds, resultsTimestamp, now) ==
  maxAgeSeconds # None /\ add(resultsTimestamp, maxAgeSeconds[1]) <= now
IsStale(maxAgeSeconds, resultsTimestamp, now) ==
  maxAgeSeconds # None /\ add(resultsTimestamp, maxAgeSeconds[1]) < now

\* the loops of areMediaQueriesResultsFresh return false at the first stale
\* pair of query and engine, and true after the last pair
areMediaQueriesResultsFresh(queries, resultsTimestamp, now, maxAge) ==
  ~ \E c \in MaxAgeCalls(queries) : IsStale(maxAge[c], resultsTimestamp, now)

\* areMediaQueriesResultsFresh: `now` is the clock at the call, `maxAge` what
\* the engines answer to getQueryResultMaxAge
AreMediaQueriesResultsFresh(queries, resultsTimestamp, now, maxAge) ==
  /\ meta.phase # "running"
  /\ fresh' = [kind |-> "returned", queries |-> queries, resultsTimestamp |-> resultsTimestamp,
               now |-> now, maxAge |-> maxAge,
               ret |-> areMediaQueriesResultsFresh(queries, resultsTimestamp, now, maxAge)]
  /\ caps' = NoCaps
  /\ meta' = NoMeta
  /\ lookup' = NoLookup
  /\ UNCHANGED <<store, initVars, queryVars, uiVars>>

\* the flags of CameraManagerCameraCapabilities
Flags == {"canFavoriteEvents", "canFavoriteRecordings", "supportsClips",
          "supportsRecordings", "supportsSnapshots", "supportsTimeline"}

\* getCameraCapabilities: null for a camera that is not in the store, else
\* what the camera's engine answers (engineCaps)
getCameraCapabilities(cameraID, engineCaps) ==
  IF ~hasCameraID(store, cameraID) THEN None ELSE engineCaps[cameraID]

\* perCameraCapabilities.some((cap) => cap?.flag)
EveryCapability(perCameraCapabilities, flag) ==
  \A id \in DOMAIN perCameraCapabilities :
     perCameraCapabilities[id] # None /\ perCameraCapabilities[id][1][flag]
SomeCapability(perCameraCapabilities, flag) ==
  \E id \in DOMAIN perCameraCapabilities :
     perCameraCapabilities[id] # None /\ perCameraCapabilities[id][1][flag]

getAggregateCameraCapabilities(cameraIDs, engineCaps) ==
  LET all == getCameraIDs(store)
      ids == IF cameraIDs = None THEN {all[k] : k \in DOMAIN all} ELSE cameraIDs[1]
      perCameraCapabilities == [id \in ids |-> getCameraCapabilities(id, engineCaps)]
  IN  [canFavoriteEvents |-> SomeCapability(perCameraCapabilities, "canFavoriteEvents"),
       canFavoriteRecordings |-> SomeCapability(perCameraCapabilities, "canFavoriteRecordings"),
       supportsClips |-> SomeCapability(perCameraCapabilities, "supportsClips"),
       supportsRecordings |-> SomeCapability(perCameraCapabilities, "supportsRecordings"),
       supportsSnapshots |-> SomeCapability(perCameraCapabilities, "supportsSnapshots"),
       supportsTimeline |-> SomeCapability(perCameraCapabilities, "supportsTimeline")]

\* getAggregateCameraCapabilities: `cameraIDs` is the optional subset,
\* `engineCaps` what the engines answer to getCameraCapabilities
GetAggregateCameraCapabilities(cameraIDs, engineCaps) ==
  /\ meta.phase # "running"
  /\ caps' = [kind |-> "returned", cameraIDs |-> cameraIDs, engineCaps |-> engineCaps,
              ret |-> getAggregateCameraCapabilities(cameraIDs, engineCaps)]
  /\ fresh' = NoFresh
  /\ meta' = NoMeta
  /\ lookup' = NoLookup
  /\ UNCHANGED <<store, initVars, queryVars, uiVars>>

\* this._store.getAllEngines()
getAllEngines(s) == {s[i].engine : i \in 1..Len(s)}

\* engineMetadata.what.forEach(what.add, what), when the engine answered one
AddAllReplaces(set, facet) == IF facet = None THEN set ELSE facet[1]
AddAll(set, facet) == IF facet = None THEN set ELSE set \cup facet[1]

\* ...(what.size && { what: what }): an empty facet is left out
Facet(set) == IF Cardinality(set) = 0 THEN None ELSE Some(set)

\* getMediaMetadata up to its suspension: one engine.getMediaMetadata per
\* engine of the store
GetMediaMetadata ==
  /\ meta.phase # "running"
  /\ meta' = [NoMeta EXCEPT !.phase = "running", !.pending = getAllEngines(store)]
  /\ fresh' = NoFresh
  /\ caps' = NoCaps
  /\ lookup' = NoLookup
  /\ UNCHANGED <<store, initVars, queryVars, uiVars>>

\* processMetadata(engine) resumes with the engine's metadata, or null
MediaMetadataReturns(engine, engineMetadata) ==
  /\ meta.phase = "running"
  /\ engine \in meta.pending
  /\ meta' = IF engineMetadata = None
             THEN [meta EXCEPT !.pending = @ \ {engine},
                               !.replies = Append(@, [engine |-> engine, metadata |-> engineMetadata])]
             ELSE [meta EXCEPT !.pending = @ \ {engine},
                               !.replies = Append(@, [engine |-> engine, metadata |-> engineMetadata]),
                               !.what = AddAll(@, engineMetadata[1].what),
                               !.where = AddAll(@, engineMetadata[1].where),
                               !.days = AddAll(@, engineMetadata[1].days)]
  /\ UNCHANGED <<store, initVars, queryVars, uiVars, fresh, caps, lookup>>

\* getMediaMetadata resumes after allPromises and returns
GetMediaMetadataReturns ==
  /\ meta.phase = "running"
  /\ meta.pending = {}
  /\ meta' = [meta EXCEPT !.phase = "returned",
                          !.ret = IF /\ Cardinality(meta.what) = 0
                                     /\ Cardinality(meta.where) = 0
                                     /\ Cardinality(meta.days) = 0
                                  THEN None
                                  ELSE Some([what |-> Facet(meta.what), where |-> Facet(meta.where),
                                             days |-> Facet(meta.days)])]
  /\ UNCHANGED <<store, initVars, queryVars, uiVars, fresh, caps, lookup>>

(***************************************************************************)
(* The lookups: operations that read the store and, at most, hand what     *)
(* they read to an engine.  `call` and `returned` say when getCameraIDs     *)
(* ran: the configs handed to initializeCameras so far, and the cameras of *)
(* the running call that had returned.                                     *)
(***************************************************************************)
\* this._store.getCameraConfigForMedia(media), for the media of a camera
getCameraConfigForMedia(s, cameraID) ==
  IF hasCameraID(s, cameraID)
  THEN Some(s[CHOOSE i \in 1..Len(s) : s[i].id = cameraID].config)
  ELSE None

\* engine.favoriteMedia is handed the config object of the store: what it
\* leaves of it
EngineFavoriteMediaRewrites(cameraConfig) == [cameraConfig EXCEPT !.normalized = ~@]
EngineFavoriteMedia(cameraConfig) == cameraConfig

\* the store whose config object of one camera has become `cameraConfig`
WithCameraConfig(s, cameraID, cameraConfig) ==
  [i \in 1..Len(s) |-> IF s[i].id = cameraID THEN [s[i] EXCEPT !.config = cameraConfig] ELSE s[i]]

Looked(opName, cameraID, kind, ids) ==
  /\ meta.phase # "running"
  /\ lookup' = [op |-> opName, cameraID |-> cameraID, kind |-> kind, ids |-> ids,
                call |-> IF opName = "getCameraIDs" THEN submitted ELSE 0,
                returned |-> IF opName = "getCameraIDs" THEN Len(completed) ELSE 0]
  /\ fresh' = NoFresh
  /\ caps' = NoCaps
  /\ meta' = NoMeta

\* getCameraIDs: null for an empty store, else the set of the IDs
GetCameraIDs ==
  /\ IF getCameraCount(store) = 0
     THEN Looked("getCameraIDs", NoID, "null", {})
     ELSE Looked("getCameraIDs", NoID, "value", StoreIDs(store))
  /\ UNCHANGED <<store, initVars, queryVars, uiVars>>

\* favoriteMedia for media of camera `cameraID`: returns at once when the
\* store has no config for the media, else awaits engine.favoriteMedia, which
\* resolves or rejects (`outcome`)
FavoriteMedia(cameraID, outcome) ==
  /\ LET cameraConfig == getCameraConfigForMedia(store, cameraID)
     IN  IF cameraConfig = None
         THEN /\ Looked("favoriteMedia", cameraID, "void", {})
              /\ UNCHANGED store
         ELSE /\ Looked("favoriteMedia", cameraID, IF outcome = "rejected" THEN "error" ELSE "void", {})
              /\ store' = WithCameraConfig(store, cameraID, EngineFavoriteMedia(cameraConfig[1]))
  /\ UNCHANGED <<initVars, queryVars, uiVars>>

\* getMediaSeekTime for media of camera `cameraID`: null when the store has
\* no config for the media or the target lies outside the media, else what
\* engine.getMediaSeekTime answers
GetMediaSeekTime(cameraID, outcome) ==
  /\ IF getCameraConfigForMedia(store, cameraID) = None \/ outcome = "out_of_range"
     THEN Looked("getMediaSeekTime", cameraID, "null", {})
     ELSE Looked("getMediaSeekTime", cameraID, IF outcome = "rejected" THEN "error" ELSE "value", {})
  /\ UNCHANGED <<store, initVars, queryVars, uiVars>>

(***************************************************************************)
(* The carousel component (FrigateCardCarousel).  An action is one         *)
(* callback of the component: a lifecycle callback of Lit, an event of the *)
(* Embla carousel, the timer of the throttle or an animation frame.        *)
(***************************************************************************)
Slides == 0..MaxIndex

\* this.requestUpdate(): an update is pending; a pending update with a changed
\* destroy property stays one
requestUpdate(pending) == IF pending = "none" THEN "plain" ELSE pending

\* this._savedStartIndex && { startIndex: ... }: null and 0 are falsy
Truthy(index) == index # None /\ index[1] # 0

\* the options EmblaCarousel is created with: { ...this.carouselOptions,
\* ...(this._savedStartIndex && { startIndex: this._savedStartIndex }) };
\* Embla starts at slide 0 without a startIndex
StartIndex(options, saved) ==
  IF Truthy(saved) THEN saved[1]
  ELSE IF options # None THEN options[1]
  ELSE 0

\* the Embla instance _initCarousel creates, which is then the only live one
\* unless another was left undestroyed
NewCarousel(live, options, saved, expected) ==
  [id |-> Cardinality(live) + 1, selected |-> StartIndex(options, saved), moving |-> FALSE,
   startedAt |-> StartIndex(options, saved), expected |-> expected]

\* _destroyCarousel: what _savedStartIndex becomes
SavedAfterDestroy(carousel, savePosition) ==
  IF savePosition /\ carousel # None THEN Some(carousel[1].selected) ELSE None

\* the slide a recreated carousel is to start at, as _destroyCarousel leaves it
RestoreAfterDestroy(carousel, savePosition, before) ==
  IF ~savePosition THEN None
  ELSE IF carousel # None THEN Some(carousel[1].selected)
  ELSE before

\* this._carousel.destroy()
LiveAfterDestroy(carousel, live) ==
  IF carousel # None THEN live \ {carousel[1].id} ELSE live

\* getCarouselSelected() and the options _carouselReInitInPlaceInternal hands
\* to reInit in the next animation frame
ReInitOptions(carousel) ==
  [startIndex |-> IF carousel # None THEN Some(carousel[1].selected) ELSE None]

\* a call of the throttled _carouselReInitInPlace (500 ms, leading and
\* trailing): invoked at once outside the wait, left to the timer inside it
ThrottledCall(state, pendingFrames, carousel) ==
  IF state = "idle"
  THEN [throttle |-> "wait", frames |-> pendingFrames \cup {ReInitOptions(carousel)}]
  ELSE [throttle |-> "trailing", frames |-> pendingFrames]

\* connectedCallback
Connect ==
  /\ ~connected
  /\ connected' = TRUE
  /\ enableUpdating' = TRUE
  /\ updateRequested' = requestUpdate(updateRequested)
  /\ UNCHANGED <<hasUpdated, carouselOptions, _carousel, liveCarousels, _savedStartIndex, _scrolling,
                 _reInitOnSettle, throttle, frames, restore, cutOff>>
  /\ UNCHANGED <<cameraVars, conditionsVars, managerVars, viewVars>>

\* disconnectedCallback: _destroyCarousel({ savePosition: true })
Disconnect ==
  /\ connected
  /\ connected' = FALSE
  /\ _savedStartIndex' = SavedAfterDestroy(_carousel, TRUE)
  /\ restore' = RestoreAfterDestroy(_carousel, TRUE, restore)
  /\ liveCarousels' = LiveAfterDestroy(_carousel, liveCarousels)
  /\ _carousel' = None
  /\ UNCHANGED <<enableUpdating, hasUpdated, updateRequested, carouselOptions, _scrolling,
                 _reInitOnSettle, throttle, frames, cutOff>>
  /\ UNCHANGED <<cameraVars, conditionsVars, managerVars, viewVars>>

\* a property of the component is set: direction, carouselPlugins,
\* transitionEffect
SetProperty(name) ==
  /\ name \in {"direction", "carouselPlugins", "transitionEffect"}
  /\ updateRequested' = IF name \in {"direction", "carouselPlugins"} THEN "destroy"
                        ELSE requestUpdate(updateRequested)
  /\ UNCHANGED <<connected, enableUpdating, hasUpdated, carouselOptions, _carousel, liveCarousels,
                 _savedStartIndex, _scrolling, _reInitOnSettle, throttle, frames, restore, cutOff>>
  /\ UNCHANGED <<cameraVars, conditionsVars, managerVars, viewVars>>

\* carouselOptions is set, with or without a startIndex
SetCarouselOptions(options) ==
  /\ carouselOptions' = options
  /\ updateRequested' = "destroy"
  /\ UNCHANGED <<connected, enableUpdating, hasUpdated, _carousel, liveCarousels,
                 _savedStartIndex, _scrolling, _reInitOnSettle, throttle, frames, restore, cutOff>>
  /\ UNCHANGED <<cameraVars, conditionsVars, managerVars, viewVars>>

\* the pending update runs: willUpdate destroys the carousel when a destroy
\* property changed, render, and updated creates one when there is none
PerformUpdate ==
  /\ enableUpdating
  /\ updateRequested # "none"
  /\ LET destroy == updateRequested = "destroy"
         kept == IF destroy THEN None ELSE _carousel
         saved == IF destroy THEN SavedAfterDestroy(_carousel, TRUE) ELSE _savedStartIndex
         expected == IF destroy THEN RestoreAfterDestroy(_carousel, TRUE, restore) ELSE restore
         live == IF destroy THEN LiveAfterDestroy(_carousel, liveCarousels) ELSE liveCarousels
     IN  /\ _savedStartIndex' = saved
         /\ IF kept = None
            THEN LET new == NewCarousel(live, carouselOptions, saved, expected)
                 IN  /\ _carousel' = Some(new)
                     /\ liveCarousels' = live \cup {new.id}
                     /\ restore' = None
            ELSE /\ _carousel' = kept
                 /\ liveCarousels' = live
                 /\ restore' = expected
  /\ updateRequested' = "none"
  /\ hasUpdated' = TRUE
  /\ UNCHANGED <<connected, enableUpdating, carouselOptions, _scrolling, _reInitOnSettle,
                 throttle, frames, cutOff>>
  /\ UNCHANGED <<cameraVars, conditionsVars, managerVars, viewVars>>

\* _slotChanged: _destroyCarousel({ savePosition: false }) and requestUpdate
SlotChanged ==
  /\ hasUpdated
  /\ _savedStartIndex' = SavedAfterDestroy(_carousel, FALSE)
  /\ restore' = RestoreAfterDestroy(_carousel, FALSE, restore)
  /\ liveCarousels' = LiveAfterDestroy(_carousel, liveCarousels)
  /\ _carousel' = None
  /\ updateRequested' = requestUpdate(updateRequested)
  /\ UNCHANGED <<connected, enableUpdating, hasUpdated, carouselOptions, _scrolling,
                 _reInitOnSettle, throttle, frames, cutOff>>
  /\ UNCHANGED <<cameraVars, conditionsVars, managerVars, viewVars>>

\* the user or carouselScrollTo moves the carousel to another slide: Embla
\* emits 'select' (requestUpdate) and 'scroll' (_scrolling = true)
Scroll(index) ==
  /\ _carousel # None
  /\ index \in Slides \ {_carousel[1].selected}
  /\ _carousel' = Some([_carousel[1] EXCEPT !.selected = index, !.moving = TRUE])
  /\ _scrolling' = TRUE
  /\ updateRequested' = requestUpdate(updateRequested)
  /\ UNCHANGED <<connected, enableUpdating, hasUpdated, carouselOptions, liveCarousels,
                 _savedStartIndex, _reInitOnSettle, throttle, frames, restore, cutOff>>
  /\ UNCHANGED <<cameraVars, conditionsVars, managerVars, viewVars>>

\* the scroll of the live carousel comes to rest: Embla emits 'settle'
Settle ==
  /\ _carousel # None
  /\ _carousel[1].moving
  /\ _carousel' = Some([_carousel[1] EXCEPT !.moving = FALSE])
  /\ _scrolling' = FALSE
  /\ _reInitOnSettle' = FALSE
  /\ IF _reInitOnSettle
     THEN LET call == ThrottledCall(throttle, frames, _carousel)
          IN  throttle' = call.throttle /\ frames' = call.frames
     ELSE UNCHANGED <<throttle, frames>>
  /\ UNCHANGED <<connected, enableUpdating, hasUpdated, updateRequested, carouselOptions,
                 liveCarousels, _savedStartIndex, restore, cutOff>>
  /\ UNCHANGED <<cameraVars, conditionsVars, managerVars, viewVars>>

\* carouselReInitWhenSafe
CarouselReInitWhenSafe ==
  /\ IF _scrolling
     THEN /\ _reInitOnSettle' = TRUE
          /\ UNCHANGED <<throttle, frames>>
     ELSE LET call == ThrottledCall(throttle, frames, _carousel)
          IN  /\ throttle' = call.throttle
              /\ frames' = call.frames
              /\ UNCHANGED _reInitOnSettle
  /\ UNCHANGED <<connected, enableUpdating, hasUpdated, updateRequested, carouselOptions, _carousel,
                 liveCarousels, _savedStartIndex, _scrolling, restore, cutOff>>
  /\ UNCHANGED <<cameraVars, conditionsVars, managerVars, viewVars>>

\* the timer of the throttle expires: a call left to it is invoked now, and
\* the wait starts again
ThrottleTimer ==
  /\ throttle # "idle"
  /\ IF throttle = "trailing"
     THEN /\ throttle' = "wait"
          /\ frames' = frames \cup {ReInitOptions(_carousel)}
     ELSE /\ throttle' = "idle"
          /\ UNCHANGED frames
  /\ UNCHANGED <<connected, enableUpdating, hasUpdated, updateRequested, carouselOptions, _carousel,
                 liveCarousels, _savedStartIndex, _scrolling, _reInitOnSettle, restore, cutOff>>
  /\ UNCHANGED <<cameraVars, conditionsVars, managerVars, viewVars>>

\* the animation frame _carouselReInit asked for: this._carousel?.reInit
\* rebuilds the carousel at the given slide, whatever it was doing
AnimationFrame(options) ==
  /\ options \in frames
  /\ frames' = frames \ {options}
  /\ IF _carousel # None
     THEN /\ _carousel' = Some([_carousel[1] EXCEPT
                                  !.selected = IF options.startIndex # None
                                               THEN options.startIndex[1] ELSE @,
                                  !.moving = FALSE])
          /\ cutOff' = (cutOff \/ _carousel[1].moving)
     ELSE UNCHANGED <<_carousel, cutOff>>
  /\ UNCHANGED <<connected, enableUpdating, hasUpdated, updateRequested, carouselOptions,
                 liveCarousels, _savedStartIndex, _scrolling, _reInitOnSettle, throttle, restore>>
  /\ UNCHANGED <<cameraVars, conditionsVars, managerVars, viewVars>>

\* the component after construction
CarouselIdle ==
  /\ connected = FALSE
  /\ enableUpdating = FALSE
  /\ hasUpdated = FALSE
  /\ updateRequested = "none"
  /\ carouselOptions = None
  /\ _carousel = None
  /\ liveCarousels = {}
  /\ _savedStartIndex = None
  /\ _scrolling = FALSE
  /\ _reInitOnSettle = FALSE
  /\ throttle = "idle"
  /\ frames = {}
  /\ restore = None
  /\ cutOff = FALSE

(***************************************************************************)
(* The ConditionsManager, as its tests pin it down: a state of keys, merged  *)
(* key by key with every setState, listeners that hear of a change, and the  *)
(* evaluation of conditions against the state.                               *)
(***************************************************************************)
ListenerIDs == {"listener_1", "listener_2"}
Entities == {"binary_sensor.foo", "sensor.bar"}
EntityStates == {"on", "off"}

\* the entity-state maps handed to setState: binary_sensor.foo on, off or
\* absent, sensor.bar on or absent
EntityMaps ==
  {map \in UNION {[E -> EntityStates] : E \in SUBSET Entities} :
     "sensor.bar" \in DOMAIN map => \A entity \in DOMAIN map : map[entity] = "on"}

\* the state of a new manager: {}
EmptyState == [key \in {} |-> FALSE]

\* a state object with the key fullscreen, the key state, both or neither
StateOf(fullscreen, state) ==
  [key \in (IF fullscreen # None THEN {"fullscreen"} ELSE {})
             \cup (IF state # None THEN {"state"} ELSE {})
     |-> IF key = "fullscreen" THEN fullscreen[1] ELSE state[1]]

Partials ==
  {StateOf(fullscreen, state) :
     fullscreen \in {None, Some(TRUE)},
     state \in {None} \cup {Some(map) : map \in EntityMaps}}

\* { ...current, ...partial }: a key of the partial state replaces the value
\* of that key as a whole
Merged(current, partial) ==
  [key \in DOMAIN current \cup DOMAIN partial |->
     IF key \in DOMAIN partial THEN partial[key] ELSE current[key]]

\* whether the merged state calls for a notification: it is not deeply equal
\* to the current one
ChangedAlways(current, merged) == TRUE
Changed(current, merged) == merged # current

\* the arguments a listener is called with
ArgumentsOldFirst(newState, oldState) == <<oldState, newState>>
Arguments(newState, oldState) == <<newState, oldState>>

\* a 'state' condition with state or state_not against the entity states
EntityStateMatchesWhenAbsent(condition, entities) ==
  \/ condition.entity \notin DOMAIN entities
  \/ /\ condition.state # None => entities[condition.entity] \in condition.state[1]
     /\ condition.state_not # None => entities[condition.entity] \notin condition.state_not[1]
EntityStateMatches(condition, entities) ==
  /\ condition.entity \in DOMAIN entities
  /\ condition.state # None => entities[condition.entity] \in condition.state[1]
  /\ condition.state_not # None => entities[condition.entity] \notin condition.state_not[1]

\* evaluateConditions: every condition of the list holds in the state
evaluateConditions(conditions, current) ==
  \A i \in DOMAIN conditions :
    EntityStateMatches(conditions[i],
                       IF "state" \in DOMAIN current THEN current["state"] ELSE EmptyState)

\* addListener, or a listener handed to the constructor
AddListener(listener) ==
  /\ listener \notin listeners
  /\ listeners' = listeners \cup {listener}
  /\ partialState' = None
  /\ UNCHANGED <<condState, calledTimes, calledWith, evaluation>>
  /\ UNCHANGED <<cameraVars, carouselVars, managerVars, viewVars>>

\* removeListener
RemoveListener(listener) ==
  /\ listener \in listeners
  /\ listeners' = listeners \ {listener}
  /\ partialState' = None
  /\ UNCHANGED <<condState, calledTimes, calledWith, evaluation>>
  /\ UNCHANGED <<cameraVars, carouselVars, managerVars, viewVars>>

\* setState
SetState(partial) ==
  /\ \A listener \in listeners : calledTimes[listener] < MaxCalls
  /\ LET merged == Merged(condState, partial)
         notify == Changed(condState, merged)
     IN  /\ condState' = merged
         /\ calledTimes' = [listener \in ListenerIDs |->
                              IF notify /\ listener \in listeners
                              THEN calledTimes[listener] + 1 ELSE calledTimes[listener]]
         /\ calledWith' = IF notify /\ listeners # {}
                          THEN Some(Arguments(merged, condState)) ELSE calledWith
  /\ partialState' = Some(partial)
  /\ evaluation' = None
  /\ UNCHANGED listeners
  /\ UNCHANGED <<cameraVars, carouselVars, managerVars, viewVars>>

\* evaluateConditions
EvaluateConditions(conditions) ==
  /\ evaluation' = Some([conditions |-> conditions,
                         result |-> evaluateConditions(conditions, condState)])
  /\ partialState' = None
  /\ UNCHANGED <<condState, listeners, calledTimes, calledWith>>
  /\ UNCHANGED <<cameraVars, carouselVars, managerVars, viewVars>>

\* a new manager
ConditionsIdle ==
  /\ condState = EmptyState
  /\ listeners = {}
  /\ calledTimes = [listener \in ListenerIDs |-> 0]
  /\ calledWith = None
  /\ partialState = None
  /\ evaluation = None

(***************************************************************************)
(* The InitializationManager, as its tests pin it down.  An action is the  *)
(* code between two awaits of initializeMandatory; the initializers of a   *)
(* stage settle together, each having succeeded or not.                    *)
(***************************************************************************)
Aspects == {"languages", "side_load_elements", "cameras", "microphone_connect"}

\* the aspects of the first and of the second stage of initializeMandatory
LanguageAspects == {"languages", "side_load_elements"}
CameraAspects(config) ==
  {"cameras"} \cup (IF config.always_connected THEN {"microphone_connect"} ELSE {})

\* the aspects isInitializedMandatory asks the initializer about
MandatoryAspectsWithoutCameras(config) ==
  LanguageAspects \cup (IF config.always_connected THEN {"microphone_connect"} ELSE {})
MandatoryAspects(config) == LanguageAspects \cup CameraAspects(config)

\* Initializer.isInitializedMultiple
StageCompleteAlways(aspects, done) == TRUE
isInitializedMultiple(aspects, done) == aspects \subseteq done

\* the collaborator that initializes an aspect
InitializerOf(aspect) ==
  CASE aspect = "languages" -> "loadLanguages"
    [] aspect = "side_load_elements" -> "sideLoadHomeAssistantElements"
    [] aspect = "cameras" -> "initializeCamerasFromConfig"
    [] aspect = "microphone_connect" -> "connect"

\* Initializer.initializeMultipleIfNecessary: the initializers of the aspects
\* that are not initialized yet are called, in the order of the stage
StageOrder == <<"languages", "side_load_elements", "cameras", "microphone_connect">>
InitializersCalled(aspects, done) ==
  LET Pick(aspect) == aspect \in aspects \ done
      Called[i \in 0..Len(StageOrder)] ==
        IF i = 0 THEN << >>
        ELSE IF Pick(StageOrder[i]) THEN Append(Called[i - 1], InitializerOf(StageOrder[i]))
        ELSE Called[i - 1]
  IN  Called[Len(StageOrder)]

\* the set-up of the card around the manager: hass, config, message, query
\* string and view
Configure(h, config, message, actions, view) ==
  /\ mandatoryPhase \in {"idle", "returned"}
  /\ hass' = h
  /\ cardConfig' = config
  /\ hasMessage' = message
  /\ hasViewRelatedActions' = actions
  /\ hasView' = view
  /\ mandatoryPhase' = "idle"
  /\ mandatoryReturn' = None
  /\ calledAPI' = << >>
  /\ isInitializedMandatory' = None
  /\ UNCHANGED initialized
  /\ UNCHANGED <<cameraVars, carouselVars, conditionsVars, viewVars>>

\* uninitialize(aspect)
Uninitialize(aspect) ==
  /\ mandatoryPhase \in {"idle", "returned"}
  /\ initialized' = initialized \ {aspect}
  /\ mandatoryPhase' = "idle"
  /\ mandatoryReturn' = None
  /\ calledAPI' = << >>
  /\ isInitializedMandatory' = None
  /\ UNCHANGED <<hass, cardConfig, hasMessage, hasViewRelatedActions, hasView>>
  /\ UNCHANGED <<cameraVars, carouselVars, conditionsVars, viewVars>>

\* isInitializedMandatory
IsInitializedMandatory ==
  /\ mandatoryPhase \in {"idle", "returned"}
  /\ isInitializedMandatory' = Some(/\ cardConfig # None
                           /\ isInitializedMultiple(MandatoryAspects(cardConfig[1]), initialized)
                           /\ hasView)
  /\ UNCHANGED <<hass, cardConfig, hasMessage, hasViewRelatedActions, hasView, initialized,
                 mandatoryPhase, mandatoryReturn, calledAPI>>
  /\ UNCHANGED <<cameraVars, carouselVars, conditionsVars, viewVars>>

\* initializeMandatory up to its first await: nothing without hass, else the
\* languages and the side-loaded elements are initialized if necessary
InitializeMandatory ==
  /\ mandatoryPhase \in {"idle", "returned"}
  /\ isInitializedMandatory' = None
  /\ IF ~hass
     THEN /\ mandatoryPhase' = "returned"
          /\ mandatoryReturn' = Some(FALSE)
          /\ calledAPI' = << >>
     ELSE /\ mandatoryPhase' = "languages"
          /\ mandatoryReturn' = None
          /\ calledAPI' = InitializersCalled(LanguageAspects, initialized)
  /\ UNCHANGED <<hass, cardConfig, hasMessage, hasViewRelatedActions, hasView, initialized>>
  /\ UNCHANGED <<cameraVars, carouselVars, conditionsVars, viewVars>>

\* the first stage settles with the aspects in ok initialized: false when the
\* stage is not complete or there is no config, else on to the cameras (and
\* the microphone when always_connected)
LanguagesSettle(ok) ==
  /\ mandatoryPhase = "languages"
  /\ ok \subseteq LanguageAspects \ initialized
  /\ initialized' = initialized \cup ok
  /\ IF ~isInitializedMultiple(LanguageAspects, initialized') \/ cardConfig = None
     THEN /\ mandatoryPhase' = "returned"
          /\ mandatoryReturn' = Some(FALSE)
          /\ UNCHANGED calledAPI
     ELSE /\ mandatoryPhase' = "cameras"
          /\ calledAPI' = calledAPI \o InitializersCalled(CameraAspects(cardConfig[1]), initialized')
          /\ UNCHANGED mandatoryReturn
  /\ UNCHANGED <<hass, cardConfig, hasMessage, hasViewRelatedActions, hasView, isInitializedMandatory>>
  /\ UNCHANGED <<cameraVars, carouselVars, conditionsVars, viewVars>>

\* the second stage settles: false when it is not complete, else a view is
\* set unless there is a message or a view already, the card is updated and
\* the result is true; setting the view may leave the card with or without one
CamerasSettle(ok, view) ==
  /\ mandatoryPhase = "cameras"
  /\ ok \subseteq CameraAspects(cardConfig[1]) \ initialized
  /\ initialized' = initialized \cup ok
  /\ mandatoryPhase' = "returned"
  /\ IF ~isInitializedMultiple(CameraAspects(cardConfig[1]), initialized')
     THEN /\ mandatoryReturn' = Some(FALSE)
          /\ UNCHANGED <<calledAPI, hasView>>
     ELSE /\ mandatoryReturn' = Some(TRUE)
          /\ IF ~hasMessage /\ ~hasView
             THEN /\ calledAPI' = calledAPI \o
                       <<IF hasViewRelatedActions THEN "executeViewRelated"
                         ELSE "setViewDefaultWithNewQuery", "update">>
                  /\ hasView' = view
             ELSE /\ calledAPI' = Append(calledAPI, "update")
                  /\ UNCHANGED hasView
  /\ UNCHANGED <<hass, cardConfig, hasMessage, hasViewRelatedActions, isInitializedMandatory>>
  /\ UNCHANGED <<cameraVars, carouselVars, conditionsVars, viewVars>>

\* a new manager in a card without hass and config
ManagerIdle ==
  /\ hass = FALSE
  /\ cardConfig = None
  /\ hasMessage = FALSE
  /\ hasViewRelatedActions = FALSE
  /\ hasView = FALSE
  /\ initialized = {}
  /\ mandatoryPhase = "idle"
  /\ mandatoryReturn = None
  /\ calledAPI = << >>
  /\ isInitializedMandatory = None

(***************************************************************************)
(* The view factory (ViewFactory).  A call of the factory is one step: it  *)
(* holds no await.  The config of the card and the cameras of the store    *)
(* are loaded once.                                                        *)
(***************************************************************************)
FRIGATE_CARD_VIEW_DEFAULT == "live"

NoViewName == ""
NoView == [view |-> NoViewName, camera |-> NoID, displayMode |-> ""]
NoContext == [view |-> NoViewName, camera |-> NoID, camera_capabilities |-> None,
              cameras_capabilities |-> {}]
NoOptions == [params |-> [view |-> None, camera |-> None], baseView |-> None, failSafe |-> FALSE]
NoViewRet == [op |-> "none", options |-> NoOptions, kind |-> "none", view |-> NoView,
              context |-> NoContext]
NoCycle == [view |-> NoViewName, start |-> NoID, cameras |-> << >>]

\* whether the capabilities of a camera allow a view
SupportsView(camera, viewName) ==
  camera.capabilities # None /\ viewName \in camera.capabilities[1]

RECURSIVE getCameraIDsForViewName(_, _, _)
\* getCameraIDsForViewName(cameraManager, viewName, cameraID?): the IDs of the
\* cameras that support the view, in the order of the store; of that one
\* camera when a camera ID is given
getCameraIDsForViewName(cameras, viewName, cameraID) ==
  IF cameras = << >> THEN << >>
  ELSE (IF /\ SupportsView(Head(cameras), viewName)
           /\ (cameraID = None \/ Head(cameras).id = cameraID[1])
        THEN <<Head(cameras).id>> ELSE << >>)
       \o getCameraIDsForViewName(Tail(cameras), viewName, cameraID)

\* !!getCameraIDsForViewName(..., view, cameraID).size
isViewSupportedByCamera(cameraID, view) ==
  Len(getCameraIDsForViewName(viewCameras, view, Some(cameraID))) # 0

\* Array.prototype.indexOf, and the element at an index counted from 0
indexOf(array, x) ==
  LET at == {i \in 1..Len(array) : array[i] = x}
  IN  IF at = {} THEN -1 ELSE (CHOOSE i \in at : \A j \in at : i <= j) - 1
At(array, index) == array[index + 1]

\* currentIndex + 1 >= cameraIDs.length ? 0 : currentIndex + 1
TargetIndexClamped(currentIndex, length) ==
  IF currentIndex + 1 >= length THEN length - 1 ELSE currentIndex + 1
targetIndex(currentIndex, length) ==
  IF currentIndex + 1 >= length THEN 0 ELSE currentIndex + 1

\* options?.baseView?.camera && config.view.default_cycle_camera
CyclesCamera(options, config) ==
  /\ options.baseView # None
  /\ options.baseView[1].camera # NoID
  /\ config.default_cycle_camera

\* _getDefaultDisplayModeForView
_getDefaultDisplayModeForView(viewName, config) ==
  LET mode == IF viewName \in {"media", "clip", "recording", "snapshot"}
              THEN config.media_viewer_mode
              ELSE IF viewName = "live" THEN config.live_mode ELSE None
  IN  IF mode = None THEN "single" ELSE mode[1]

\* baseView.evolve(viewParameters): a new view with the given parameters in
\* place of those of the base view
evolve(baseView, viewParameters) ==
  [field \in DOMAIN baseView |->
     IF field \in DOMAIN viewParameters THEN viewParameters[field] ELSE baseView[field]]

\* the view getViewByParameters returns for a view name and a camera
NewView(options, viewName, cameraID, config) ==
  LET displayMode == IF options.baseView # None THEN options.baseView[1].displayMode
                     ELSE _getDefaultDisplayModeForView(viewName, config)
      viewParameters == [view |-> viewName, camera |-> cameraID, displayMode |-> displayMode]
  IN  IF options.baseView # None THEN evolve(options.baseView[1], viewParameters)
      ELSE viewParameters

\* !cameraID || !allCameraIDs.has(cameraID)
NeedsDefaultCameraWhenMissing(cameraID, allCameraIDs) == cameraID = None
NeedsDefaultCamera(cameraID, allCameraIDs) ==
  cameraID = None \/ cameraID[1] \notin allCameraIDs

\* options?.failSafe && this.isViewSupportedByCamera(cameraID, FRIGATE_CARD_VIEW_DEFAULT)
FallsBackWithoutFailSafe(failSafe, cameraID) ==
  isViewSupportedByCamera(cameraID, FRIGATE_CARD_VIEW_DEFAULT)
FallsBack(failSafe, cameraID) ==
  failSafe /\ isViewSupportedByCamera(cameraID, FRIGATE_CARD_VIEW_DEFAULT)

\* camera.getCapabilities()?.getRawCapabilities() of one camera of the store
RawCapabilities(cameraID) ==
  LET at == {i \in 1..Len(viewCameras) : viewCameras[i].id = cameraID}
  IN  IF at = {} THEN None ELSE viewCameras[CHOOSE i \in at : TRUE].capabilities

\* camerasToCapabilities: the capabilities of the cameras that have some
CamerasToCapabilities ==
  {<<viewCameras[i].id, viewCameras[i].capabilities[1]>> :
     i \in {j \in 1..Len(viewCameras) : viewCameras[j].capabilities # None}}

\* options?.params?.camera ?? options?.baseView?.camera ?? null
RequestedCamera(options) ==
  IF options.params.camera # None THEN options.params.camera
  ELSE IF options.baseView # None THEN Some(options.baseView[1].camera)
  ELSE None

\* options?.params?.view ?? options?.baseView?.view ?? config.view.default
RequestedView(options, config) ==
  IF options.params.view # None THEN options.params.view[1]
  ELSE IF options.baseView # None THEN options.baseView[1].view
  ELSE config.default

\* getViewByParameters: what it returns or throws
getViewByParameters(options) ==
  IF viewConfig = None THEN [kind |-> "null", view |-> NoView, context |-> NoContext]
  ELSE
    LET config == viewConfig[1]
        requested == RequestedCamera(options)
        viewName == RequestedView(options, config)
        allCameraIDs == {viewCameras[i].id : i \in 1..Len(viewCameras)}
        viewCameraIDs == getCameraIDsForViewName(viewCameras, viewName, None)
        cameraID == IF NeedsDefaultCamera(requested, allCameraIDs)
                    THEN (IF viewCameraIDs = << >> THEN None ELSE Some(viewCameraIDs[1]))
                    ELSE requested
    IN  IF cameraID = None
        THEN [kind |-> "ViewNoCameraError", view |-> NoView,
              context |-> [NoContext EXCEPT !.view = viewName,
                                            !.cameras_capabilities = CamerasToCapabilities]]
        ELSE IF ~ isViewSupportedByCamera(cameraID[1], viewName)
        THEN IF FallsBack(options.failSafe, cameraID[1])
             THEN [kind |-> "view", context |-> NoContext,
                   view |-> NewView(options, FRIGATE_CARD_VIEW_DEFAULT, cameraID[1], config)]
             ELSE [kind |-> "ViewIncompatible", view |-> NoView,
                   context |-> [NoContext EXCEPT !.view = viewName, !.camera = cameraID[1],
                                                 !.camera_capabilities = RawCapabilities(cameraID[1])]]
        ELSE [kind |-> "view", context |-> NoContext,
              view |-> NewView(options, viewName, cameraID[1], config)]

\* options?.params?.view ?? config.view.default
DefaultViewName(options, config) ==
  IF options.params.view # None THEN options.params.view[1] ELSE config.default

\* getViewDefault: what it returns or throws
getViewDefault(options) ==
  IF viewConfig = None THEN [kind |-> "null", view |-> NoView, context |-> NoContext]
  ELSE
    LET config == viewConfig[1]
        viewName == DefaultViewName(options, config)
        cameraIDs == getCameraIDsForViewName(viewCameras, viewName, None)
        currentIndex == indexOf(cameraIDs, options.baseView[1].camera)
        cameraID == IF options.params.camera # None THEN options.params.camera[1]
                    ELSE IF CyclesCamera(options, config)
                    THEN At(cameraIDs, targetIndex(currentIndex, Len(cameraIDs)))
                    ELSE At(cameraIDs, 0)
    IN  IF options.params.camera = None /\ Len(cameraIDs) = 0
        THEN [kind |-> "null", view |-> NoView, context |-> NoContext]
        ELSE getViewByParameters([params |-> [view |-> Some(viewName), camera |-> Some(cameraID)],
                                  baseView |-> options.baseView,
                                  failSafe |-> FALSE])

\* the config of the card is loaded
LoadViewConfig(config) ==
  /\ viewConfig = None
  /\ viewConfig' = Some(config)
  /\ viewRet' = NoViewRet
  /\ cycle' = NoCycle
  /\ UNCHANGED <<viewCameras, cameraVars, carouselVars, conditionsVars, managerVars>>

\* the cameras of the card are initialized
LoadViewCameras(cameras) ==
  /\ viewCameras = << >>
  /\ cameras # << >>
  /\ viewCameras' = cameras
  /\ viewRet' = NoViewRet
  /\ cycle' = NoCycle
  /\ UNCHANGED <<viewConfig, cameraVars, carouselVars, conditionsVars, managerVars>>

\* a call of getViewByParameters
GetViewByParameters(options) ==
  /\ viewRet' = [op |-> "getViewByParameters", options |-> options] @@ getViewByParameters(options)
  /\ cycle' = NoCycle
  /\ UNCHANGED <<viewConfig, viewCameras, cameraVars, carouselVars, conditionsVars, managerVars>>

\* the call continues a run of calls of getViewDefault that cycle the
\* camera, each with the result of the one before as base view
ContinuesCycle(options) ==
  /\ cycle.cameras # << >>
  /\ Len(cycle.cameras) < MaxCycle
  /\ viewRet.op = "getViewDefault"
  /\ viewRet.kind = "view"
  /\ options.baseView = Some(viewRet.view)
  /\ DefaultViewName(options, viewConfig[1]) = cycle.view

\* a call of getViewDefault; `cycle` keeps the cameras of the views that
\* successive cycling calls returned, and the camera the run started from
GetViewDefault(options) ==
  LET returned == getViewDefault(options)
  IN  /\ viewRet' = [op |-> "getViewDefault", options |-> options] @@ returned
      /\ cycle' = IF /\ returned.kind = "view"
                     /\ options.params.camera = None
                     /\ CyclesCamera(options, viewConfig[1])
                  THEN IF ContinuesCycle(options)
                       THEN [cycle EXCEPT !.cameras = Append(@, returned.view.camera)]
                       ELSE [view |-> DefaultViewName(options, viewConfig[1]),
                             start |-> options.baseView[1].camera,
                             cameras |-> <<returned.view.camera>>]
                  ELSE NoCycle
      /\ UNCHANGED <<viewConfig, viewCameras, cameraVars, carouselVars, conditionsVars, managerVars>>

\* a new factory in a card without config and cameras
ViewIdle ==
  /\ viewConfig = None
  /\ viewCameras = << >>
  /\ viewRet = NoViewRet
  /\ cycle = NoCycle

(***************************************************************************)
(* Specifications.                                                         *)
(***************************************************************************)
InitInit ==
  /\ store = << >>
  /\ initPhase = "idle"
  /\ batch = << >>
  /\ storeBefore = << >>
  /\ task = << >>
  /\ completed = << >>
  /\ created = {}
  /\ initError = NoError
  /\ submitted = 0
  /\ fetches = 0

QueryIdle ==
  /\ qPhase = "idle"
  /\ op = "none"
  /\ callerQueries = << >>
  /\ callerResults = << >>
  /\ calls = {}
  /\ results = << >>
  /\ answered = {}
  /\ rejections = {}
  /\ ext = NoExt
  /\ ret = NoRet

FacadeIdle ==
  /\ fresh = NoFresh
  /\ caps = NoCaps
  /\ meta = NoMeta
  /\ lookup = NoLookup

UIIdle == CarouselIdle /\ ConditionsIdle /\ ManagerIdle /\ ViewIdle

Init == InitInit /\ QueryIdle /\ FacadeIdle /\ UIIdle

Next ==
  \/ \E camerasConfig \in SeqsUpTo(InputConfigs, MaxConfigs) : InitializeCameras(camerasConfig)
  \/ \E i \in 1..MaxConfigs : GetEngineForCameraReturns(i)
  \/ \E i \in 1..MaxConfigs : CreateEngineReturns(i)
  \/ \E i \in 1..MaxConfigs : InitializeCameraReturns(i)
  \/ ApplyResults

Spec == Init /\ [][Next]_vars

\* The initialization with cameras that have automatic triggers and with
\* engines (and an engine factory and an entity registry) that can reject.
TriggerConfigs ==
  { [id |-> "a", engine |-> "frigate", normalized |-> FALSE, triggers |-> NoTriggers],
    [id |-> NoID, engine |-> "generic", normalized |-> FALSE,
     triggers |-> [motion |-> FALSE, occupancy |-> TRUE]],
    [id |-> "b", engine |-> NoType, normalized |-> FALSE,
     triggers |-> [motion |-> TRUE, occupancy |-> FALSE]] }

NextInitialize ==
  \/ \E camerasConfig \in SeqsUpTo(TriggerConfigs, MaxConfigs) : InitializeCameras(camerasConfig)
  \/ FetchEntityListReturns
  \/ FetchEntityListRejects
  \/ \E i \in 1..MaxConfigs : GetEngineForCameraReturns(i)
  \/ \E i \in 1..MaxConfigs : CreateEngineReturns(i)
  \/ \E i \in 1..MaxConfigs : InitializeCameraReturns(i)
  \/ \E i \in 1..MaxConfigs : GetEngineForCameraRejects(i)
  \/ \E i \in 1..MaxConfigs : CreateEngineRejects(i)
  \/ \E i \in 1..MaxConfigs : InitializeCameraRejects(i)
  \/ ApplyResults

SpecInitialize == Init /\ [][NextInitialize]_vars

\* The store of the query specification: the one that initializeCameras
\* leaves when it is handed camera `a` of a frigate engine and camera `b` of a
\* generic engine (camera `c` of the queries is in no store).
QueryBatch ==
  << [id |-> "a", engine |-> "frigate", normalized |-> FALSE, triggers |-> NoTriggers],
     [id |-> "b", engine |-> "generic", normalized |-> FALSE, triggers |-> NoTriggers] >>

QueryTasks ==
  [i \in 1..Len(QueryBatch) |->
     [pc |-> "done", engine |-> [type |-> QueryBatch[i].engine, inst |-> i],
      initializedConfig |-> EngineInitializeCamera(cloneDeep(QueryBatch[i]).value)]]

InitInitialized ==
  /\ store = AddResults(<< >>, QueryTasks, QueryBatch, ResultsOrder(Len(QueryBatch), << >>)).store
  /\ initPhase = "done"
  /\ batch = QueryBatch
  /\ storeBefore = << >>
  /\ task = QueryTasks
  /\ completed = <<1, 2>>
  /\ created = {QueryTasks[i].engine : i \in 1..Len(QueryBatch)}
  /\ initError = NoError
  /\ submitted = Len(QueryBatch)
  /\ fetches = 0

\* the queries of the callers: an event query over both engines, a recording
\* query of one camera, queries of a camera that is in no store, a recording
\* segments query
EventQuery ==
  [oid |-> CallerObject(0), type |-> "Event", cameraIDs |-> {"a", "b"},
   start |-> Some(1), end |-> Some(3), limit |-> Some(3)]
RecordingQuery ==
  [oid |-> CallerObject(0), type |-> "Recording", cameraIDs |-> {"a", "c"},
   start |-> None, end |-> None, limit |-> None]
UnownedQuery ==
  [oid |-> CallerObject(0), type |-> "Event", cameraIDs |-> {"c"},
   start |-> None, end |-> Some(2), limit |-> None]
PartlyOwnedQuery ==
  [oid |-> CallerObject(0), type |-> "Event", cameraIDs |-> {"b", "c"},
   start |-> Some(2), end |-> None, limit |-> Some(1)]
RecordingSegmentsQuery ==
  [oid |-> CallerObject(0), type |-> "RecordingSegments", cameraIDs |-> {"b"},
   start |-> Some(1), end |-> Some(2), limit |-> None]

\* the list of query objects a caller makes of some queries
AsCallerObjects(queries) == [i \in 1..Len(queries) |-> [queries[i] EXCEPT !.oid = CallerObject(i)]]

MediaQueryLists ==
  {AsCallerObjects(l) : l \in {<<EventQuery>>, <<RecordingQuery, PartlyOwnedQuery>>,
                                <<UnownedQuery, RecordingQuery>>, <<UnownedQuery>>}}

DataQueryLists ==
  {AsCallerObjects(l) : l \in {<<EventQuery>>, <<RecordingSegmentsQuery, EventQuery>>, <<UnownedQuery, RecordingQuery>>}}

\* what the engines make of their results: the identity and the start time
\* of each media item
Payloads ==
  { << >>,
    << [id |-> "x", start |-> Some(2)] >>,
    << [id |-> "y", start |-> Some(3)], [id |-> "x", start |-> Some(1)] >>,
    << [id |-> NoMediaID, start |-> Some(2)], [id |-> NoMediaID, start |-> Some(2)] >>,
    << [id |-> NoMediaID, start |-> None], [id |-> "y", start |-> Some(1)] >> }

ChunkSizes == 1..MaxChunkSize

InitQuery == InitInitialized /\ QueryIdle /\ FacadeIdle /\ UIIdle

NextQuery ==
  \/ \E queries \in DataQueryLists : GetQueryResults(queries)
  \/ \E queries \in MediaQueryLists : ExecuteMediaQueries(queries)
  \/ \E direction \in {"earlier", "later"}, chunkSize \in ChunkSizes :
        ExtendMediaQueries(direction, chunkSize)
  \/ \E c \in calls : \E engineResult \in EngineResults(c, Payloads) : EngineReturns(c, engineResult)
  \/ HandleQueryReturns

SpecQuery == InitQuery /\ [][NextQuery]_vars

\* The query operations with engines whose calls can reject.
FewPayloads ==
  { << >>,
    << [id |-> "x", start |-> Some(2)], [id |-> NoMediaID, start |-> Some(1)] >> }

\* an engine type of which the store has no engine
UnknownType == "unknown"

\* answers of another result type than the query's, and answers tagged with a
\* type of which the store has no engine
MistypedResults(c) ==
  LET payload == << [id |-> "z", start |-> Some(2)], [id |-> NoMediaID, start |-> Some(3)] >>
  IN  {[type |-> IF c.query.type = "Event" THEN "Recording" ELSE "Event",
        engine |-> c.engine.type, payload |-> payload],
       [type |-> c.query.type, engine |-> UnknownType, payload |-> payload]}

\* lists handed to executeMediaQueries that hold a recording segments query
SegmentsQueryLists == {AsCallerObjects(<<RecordingSegmentsQuery, EventQuery>>)}

NextFanOut ==
  \/ \E queries \in DataQueryLists : GetQueryResults(queries)
  \/ \E queries \in MediaQueryLists \cup SegmentsQueryLists : ExecuteMediaQueries(queries)
  \/ \E direction \in {"earlier", "later"}, chunkSize \in ChunkSizes :
        ExtendMediaQueries(direction, chunkSize)
  \/ \E c \in calls : \E engineResult \in EngineResults(c, FewPayloads) \cup MistypedResults(c) :
        EngineReturns(c, engineResult)
  \/ \E c \in calls : EngineRejects(c)
  \/ HandleQueryReturns

SpecFanOut == InitQuery /\ [][NextFanOut]_vars

\* what the engines answer to getQueryResultMaxAge, getCameraCapabilities
\* and getMediaMetadata
MaxAges == {None, Some(0), Some(1), Some(2)}
Capabilities(flags) == Some([flag \in Flags |-> flag \in flags])
EngineCapabilities ==
  {None, Capabilities({}), Capabilities({"supportsClips"}),
   Capabilities({"canFavoriteEvents", "supportsClips", "supportsSnapshots"}),
   Capabilities(Flags \ {"supportsClips", "canFavoriteRecordings"})}
EngineMetadata ==
  {None,
   Some([what |-> None, where |-> None, days |-> None]),
   Some([what |-> Some({}), where |-> None, days |-> Some({})]),
   Some([what |-> Some({"person"}), where |-> None, days |-> Some({"monday"})]),
   Some([what |-> Some({"person", "car"}), where |-> Some({}), days |-> None]),
   Some([what |-> None, where |-> Some({"door"}), days |-> Some({"monday", "tuesday"})])}
CameraSubsets == {None, Some({}), Some({"a"}), Some({"b", "c"}), Some({"c"})}

NextFacade ==
  \/ \E queries \in DataQueryLists \cup MediaQueryLists :
       \E resultsTimestamp \in {1, 2}, now \in {2, 3} :
         \E maxAge \in [MaxAgeCalls(queries) -> MaxAges] :
            AreMediaQueriesResultsFresh(queries, resultsTimestamp, now, maxAge)
  \/ \E cameraIDs \in CameraSubsets :
       \E engineCaps \in [StoreIDs(store) -> EngineCapabilities] :
          GetAggregateCameraCapabilities(cameraIDs, engineCaps)
  \/ GetMediaMetadata
  \/ \E engine \in meta.pending : \E engineMetadata \in EngineMetadata :
       MediaMetadataReturns(engine, engineMetadata)
  \/ GetMediaMetadataReturns

SpecFacade == InitQuery /\ [][NextFacade]_vars

\* initializeCameras interleaved with the queries and the lookups of other
\* callers, from the empty store.
InterleavedBatches ==
  LET a == [id |-> "a", engine |-> "frigate", normalized |-> FALSE, triggers |-> NoTriggers]
      b == [id |-> "b", engine |-> "generic", normalized |-> FALSE, triggers |-> NoTriggers]
      c == [id |-> "c", engine |-> "frigate", normalized |-> FALSE, triggers |-> NoTriggers]
  IN  {<<a>>, <<b, c>>}

InterleavedQueries == {AsCallerObjects(<<EventQuery>>)}

\* the engines answer with one media item
OneResult(c) ==
  {[type |-> c.query.type, engine |-> c.engine.type,
    payload |-> << [id |-> "x", start |-> Some(2)] >>]}

NextInterleaved ==
  \/ \E camerasConfig \in InterleavedBatches : InitializeCameras(camerasConfig)
  \/ \E i \in 1..MaxConfigs : GetEngineForCameraReturns(i)
  \/ \E i \in 1..MaxConfigs : CreateEngineReturns(i)
  \/ \E i \in 1..MaxConfigs : InitializeCameraReturns(i)
  \/ ApplyResults
  \/ \E queries \in InterleavedQueries : ExecuteMediaQueries(queries)
  \/ ExtendMediaQueries("later", 1)
  \/ \E c \in calls : \E engineResult \in OneResult(c) : EngineReturns(c, engineResult)
  \/ \E c \in calls : EngineRejects(c)
  \/ HandleQueryReturns
  \/ \E queries \in InterleavedQueries :
        \E maxAge \in [MaxAgeCalls(queries) -> {Some(0)}] :
           AreMediaQueriesResultsFresh(queries, 1, 2, maxAge)
  \/ \E engineCaps \in [StoreIDs(store) -> {Capabilities({"supportsClips"})}] :
        GetAggregateCameraCapabilities(None, engineCaps)
  \/ GetCameraIDs
  \/ \E outcome \in {"resolved", "rejected"} : FavoriteMedia("a", outcome)
  \/ \E outcome \in {"out_of_range", "resolved", "rejected"} : GetMediaSeekTime("a", outcome)

SpecInterleaved == Init /\ [][NextInterleaved]_vars

\* The view factory: the configs of the card, the cameras of the store and
\* the options of the calls.
ViewNames == {"live", "clip", "timeline"}

ViewConfigs ==
  {[default |-> default, default_cycle_camera |-> default_cycle_camera,
    live_mode |-> Some("grid"), media_viewer_mode |-> None]
     : default \in {"live", "clip"}, default_cycle_camera \in BOOLEAN}

ViewCameraLists ==
  { << [id |-> "a", capabilities |-> Some({"live", "clip"})],
       [id |-> "b", capabilities |-> Some({"live"})],
       [id |-> "c", capabilities |-> Some({"live", "clip"})] >>,
    << [id |-> "a", capabilities |-> None],
       [id |-> "b", capabilities |-> Some({"clip"})],
       [id |-> "c", capabilities |-> Some({"live"})] >> }

\* the base view of a call: none, or the view the last call returned
BaseViews == {None} \cup (IF viewRet.kind = "view" THEN {Some(viewRet.view)} ELSE {})

ViewOptions ==
  {[params |-> [view |-> view, camera |-> camera], baseView |-> baseView, failSafe |-> failSafe]
     : view \in {None} \cup {Some(v) : v \in ViewNames},
       camera \in {None, Some("a"), Some("b"), Some("z")},
       baseView \in BaseViews,
       failSafe \in BOOLEAN}

NextView ==
  \/ \E config \in ViewConfigs : LoadViewConfig(config)
  \/ \E cameras \in ViewCameraLists : LoadViewCameras(cameras)
  \/ \E options \in ViewOptions : GetViewByParameters(options)
  \/ \E options \in ViewOptions : GetViewDefault(options)

SpecView == Init /\ [][NextView]_vars

\* the carousel component alone; carouselOptions comes without a startIndex
\* or with that of the last slide
StartIndexOptions == {None, Some(MaxIndex)}

AllReInitOptions == {[startIndex |-> index] : index \in {None} \cup {Some(i) : i \in Slides}}

NextCarousel ==
  \/ Connect
  \/ Disconnect
  \/ \E name \in {"direction", "carouselPlugins", "transitionEffect"} : SetProperty(name)
  \/ \E options \in StartIndexOptions : SetCarouselOptions(options)
  \/ PerformUpdate
  \/ SlotChanged
  \/ \E index \in Slides : Scroll(index)
  \/ Settle
  \/ CarouselReInitWhenSafe
  \/ ThrottleTimer
  \/ \E options \in AllReInitOptions : AnimationFrame(options)

SpecCarousel == Init /\ [][NextCarousel]_vars

\* the ConditionsManager alone
StateCondition(entity, states) == [entity |-> entity, state |-> Some(states), state_not |-> None]
StateNotCondition(entity, states) == [entity |-> entity, state |-> None, state_not |-> Some(states)]

ConditionLists ==
  {<<StateCondition("binary_sensor.foo", {"on"})>>,
   <<StateNotCondition("binary_sensor.foo", {"on"})>>,
   <<StateCondition("binary_sensor.foo", {"on"}), StateNotCondition("sensor.bar", {"off"})>>}

NextConditions ==
  \/ \E listener \in ListenerIDs : AddListener(listener)
  \/ \E listener \in ListenerIDs : RemoveListener(listener)
  \/ \E partial \in Partials : SetState(partial)
  \/ \E conditions \in ConditionLists : EvaluateConditions(conditions)

SpecConditions == Init /\ [][NextConditions]_vars

\* the InitializationManager alone
CardConfigs == {None, Some([always_connected |-> FALSE]), Some([always_connected |-> TRUE])}

NextMandatory ==
  \/ \E h \in BOOLEAN, config \in CardConfigs, message \in BOOLEAN, actions \in BOOLEAN,
        view \in BOOLEAN : Configure(h, config, message, actions, view)
  \/ \E aspect \in Aspects : Uninitialize(aspect)
  \/ IsInitializedMandatory
  \/ InitializeMandatory
  \/ \E ok \in SUBSET Aspects : LanguagesSettle(ok)
  \/ \E ok \in SUBSET Aspects, view \in BOOLEAN : CamerasSettle(ok, view)

SpecMandatory == Init /\ [][NextMandatory]_vars

(***************************************************************************)
(* Properties of the initialization.                                       *)
(***************************************************************************)
Finished == initPhase \in {"done", "failed"}

UniqueIDs(s) == \A i, j \in 1..Len(s) : s[i].id = s[j].id => i = j

\* every config of the list finds an engine and derives an ID, and the IDs
\* differ
ValidBatch(cfgs) ==
  /\ \A i \in 1..Len(cfgs) : cfgs[i].engine # NoType /\ cfgs[i].id # NoID
  /\ \A i, j \in 1..Len(cfgs) : cfgs[i].id = cfgs[j].id => i = j

\* C1: a list of configs with distinct non-empty IDs, initialized on an empty
\* store, is never refused, and once initializeCameras has completed the store
\* holds one camera per config, in the order of the list, whatever the order
\* in which the per-camera initializations returned.
C1_ConfigOrder ==
  (storeBefore = << >> /\ batch # << >> /\ ValidBatch(batch)) =>
     /\ initPhase # "failed"
     /\ initPhase = "done" =>
          /\ Len(store) = Len(batch)
          /\ getCameraIDs(store) = [i \in 1..Len(batch) |-> getCameraID(batch[i])]
          /\ \A i \in 1..Len(batch) : store[i].config = EngineInitializeCamera(batch[i])

\* two cameras were initialized on an empty store and the second config
\* returned first
C1_Witness ==
  /\ initPhase = "done"
  /\ storeBefore = << >>
  /\ Len(batch) >= 2
  /\ ValidBatch(batch)
  /\ completed[1] # 1

\* the positions of the list whose config is initialized by an engine and
\* derives an ID that is in the store or that an earlier config of the list
\* derives
DuplicatePositions ==
  {i \in 1..Len(batch) :
     /\ batch[i].engine # NoType
     /\ batch[i].id # NoID
     /\ \/ batch[i].id \in StoreIDs(storeBefore)
        \/ \E j \in 1..(i - 1) : batch[j].engine # NoType /\ batch[j].id = batch[i].id}

FirstDuplicate == CHOOSE i \in DuplicatePositions : \A j \in DuplicatePositions : i <= j

\* C2 as stated: a list with a duplicate ID always fails with the
\* duplicate-camera error, which carries an offending config, and the store
\* never holds an ID twice.
C2_DuplicateAlwaysReported ==
  /\ UniqueIDs(store)
  /\ (Finished /\ DuplicatePositions # {}) =>
        /\ initPhase = "failed"
        /\ initError.kind = "duplicate_camera_id"
        /\ initError.pos \in DuplicatePositions

\* C2 amended: a list with a duplicate ID always fails and the store never
\* holds an ID twice; the failure is the duplicate-camera error with the input
\* config of the first duplicate when no camera of the list was rejected and
\* no config before that one lacks an ID.
C2_Duplicate ==
  /\ UniqueIDs(store)
  /\ (Finished /\ DuplicatePositions # {}) =>
        /\ initPhase = "failed"
        /\ ( /\ \A i \in 1..Len(batch) : batch[i].engine # NoType
             /\ \A i \in 1..(FirstDuplicate - 1) : batch[i].id # NoID )
           => initError = [kind |-> "duplicate_camera_id", pos |-> FirstDuplicate,
                           config |-> batch[FirstDuplicate]]

\* a second call of initializeCameras derives an ID that the store holds
C2_Witness ==
  /\ initPhase = "failed"
  /\ initError.kind = "duplicate_camera_id"
  /\ storeBefore # << >>
  /\ batch[initError.pos].id \in StoreIDs(storeBefore)
  /\ store = storeBefore

\* C3: during the first initializeCameras (empty store) createEngine is called
\* at most once per engine type, and the cameras of one type are stored with
\* the same engine instance.
C3_OneEnginePerType ==
  submitted = Cost(batch) =>
     /\ \A ty \in EngineTypes : Cardinality({e \in created : e.type = ty}) <= 1
     /\ \A i, j \in 1..Len(store) :
           store[i].engine.type = store[j].engine.type => store[i].engine = store[j].engine

\* the per-camera initializations of the running (or last) call that rejected
Rejected == {i \in DOMAIN task : task[i].pc = "failed"}

\* C16: as soon as one per-camera initialization rejects (no engine, or the
\* engine factory or the engine rejects), initializeCameras has failed with
\* the error of the first rejection, which no later rejection replaces, and
\* the store is the one the call started with, whatever the other cameras do.
C16_FailFast ==
  [][ /\ Rejected' # {} =>
           /\ initPhase' = "failed"
           /\ store' = storeBefore'
           /\ initError'.kind \in {"no_camera_engine", "engine_error"}
           /\ initError'.pos \in Rejected'
      /\ (Rejected # {} /\ submitted' = submitted) => initError' = initError
    ]_vars

\* a list of three: the first camera was initialized, the second and third
\* were rejected, the third first
C16_Witness ==
  /\ initPhase = "failed"
  /\ Len(task) = 3
  /\ task[1].pc = "done"
  /\ Rejected = {2, 3}
  /\ initError.pos = 3
  /\ store = storeBefore

\* the positions of the list whose config finds an engine and yields no
\* camera ID once initialized, and those whose config finds no engine
NoIDPositions ==
  {i \in 1..Len(batch) : /\ batch[i].engine # NoType
                         /\ getCameraID(EngineInitializeCamera(batch[i])) = NoID}
NoEnginePositions == {i \in 1..Len(batch) : batch[i].engine = NoType}

\* C17 as stated: once every camera of the list has returned, a config that
\* yields no ID makes initializeCameras fail with the no-ID error carrying
\* such a config, a config without engine makes it fail with the no-engine
\* error carrying such a config, and an empty store makes it fail with the
\* no-cameras error.
C17_EveryFailureReported ==
  (Finished /\ Settled(task)) =>
     /\ NoIDPositions # {} =>
           /\ initPhase = "failed"
           /\ initError.kind = "no_camera_id"
           /\ initError.pos \in NoIDPositions
           /\ initError.config = batch[initError.pos]
     /\ NoEnginePositions # {} =>
           /\ initPhase = "failed"
           /\ initError.kind = "no_camera_engine"
           /\ initError.pos \in NoEnginePositions
           /\ initError.config = batch[initError.pos]
     /\ store = << >> => initPhase = "failed"

\* the first position of the list that the additions refuse
Refused == NoIDPositions \cup DuplicatePositions
FirstRefused == CHOOSE i \in Refused : \A j \in Refused : i <= j

\* C17 amended: initializeCameras fails in each of the three cases, with one
\* error: the no-engine error with the input config of a camera without
\* engine when there is one; else the error of the first config in input
\* order that yields no ID or a duplicate ID, with that input config; the
\* no-cameras error, without config, when nothing was refused and the store
\* is empty.
C17_FirstFailureReported ==
  (Finished /\ Settled(task)) =>
     /\ (NoIDPositions # {} \/ NoEnginePositions # {} \/ store = << >>) => initPhase = "failed"
     /\ NoEnginePositions # {} =>
           /\ initError.kind = "no_camera_engine"
           /\ initError.pos \in NoEnginePositions
           /\ initError.config = batch[initError.pos]
     /\ (NoEnginePositions = {} /\ NoIDPositions # {}) =>
           initError = [kind |-> IF FirstRefused \in NoIDPositions
                                 THEN "no_camera_id" ELSE "duplicate_camera_id",
                        pos |-> FirstRefused, config |-> batch[FirstRefused]]
     /\ (NoEnginePositions = {} /\ Refused = {} /\ store = << >>) =>
           initError = [kind |-> "no_cameras", pos |-> 0, config |-> NoConfig]

\* the second config of a list yields no ID after its engine initialized it
C17_Witness ==
  /\ initPhase = "failed"
  /\ initError.kind = "no_camera_id"
  /\ initError.pos = 2
  /\ task[2].pc = "done"
  /\ NoEnginePositions = {}
  /\ initError.config = batch[2]

\* some camera of the list has an automatic trigger
AutoTriggers ==
  \E i \in 1..Len(batch) : batch[i].triggers.motion \/ batch[i].triggers.occupancy

\* C18: initializeCameras fetches the entity list once when some config of
\* the list has a motion or an occupancy trigger and not at all otherwise,
\* and while the fetch is under way no per-camera initialization, hence no
\* engine.initializeCamera, has started.
C18_FetchOnceBeforeInitialize ==
  /\ initPhase # "idle" => fetches = (IF AutoTriggers THEN 1 ELSE 0)
  /\ initPhase = "fetchEntityList" => task = << >>
  /\ (\E i \in DOMAIN task : task[i].pc \in {"initializeCamera", "done"}) =>
        initPhase # "fetchEntityList"

\* a list whose only automatic trigger is an occupancy trigger: the list was
\* fetched and an engine initializes a camera
C18_Witness ==
  /\ initPhase = "running"
  /\ fetches = 1
  /\ \A i \in 1..Len(batch) : ~batch[i].triggers.motion
  /\ \E i \in DOMAIN task : task[i].pc = "initializeCamera"

\* C19: the engines rewrite copies: the caller's list of configs stays as it
\* was handed in while the initialized configs are the rewritten ones, and
\* every CameraInitializationError thrown for a camera carries that camera's
\* input config as it was handed in.
C19_InputConfigsKept ==
  [][ /\ submitted' = submitted => batch' = batch
      /\ \A i \in DOMAIN task' :
            task'[i].pc = "done" =>
               /\ task'[i].initializedConfig.normalized
               /\ task'[i].initializedConfig # batch'[i]
               /\ batch'[i] \in TriggerConfigs
      /\ initError'.kind \in {"no_camera_engine", "no_camera_id", "duplicate_camera_id"} =>
            /\ initError'.config = batch'[initError'.pos]
            /\ initError'.config \in TriggerConfigs
    ]_vars

\* the duplicate-camera error for a camera whose engine rewrote its config
C19_Witness ==
  /\ initPhase = "failed"
  /\ initError.kind = "duplicate_camera_id"
  /\ task[initError.pos].initializedConfig.normalized
  /\ ~initError.config.normalized
  /\ initError.config.id = task[initError.pos].initializedConfig.id

(***************************************************************************)
(* Properties of the queries.                                              *)
(***************************************************************************)
Range(seq) == {seq[k] : k \in 1..Len(seq)}

CallerObjects == {callerQueries[i].oid : i \in 1..Len(callerQueries)}

\* C4 as stated: every key of the map that getEvents / getRecordings /
\* getRecordingSegments return is one of the caller's query objects.
C4_KeysAreCallerObjects ==
  (qPhase = "returned" /\ op = "get") =>
     \A k \in 1..Len(ret.map) : ret.map[k].key.oid \in CallerObjects

\* C4 amended: every key of the returned map is the per-engine copy of one of
\* the caller's queries: a new object, equal to that query but for its
\* cameraIDs, which are the cameras of the query that one engine owns; no two
\* entries have the same key.
C4_KeysAreRescopedCopies ==
  (qPhase = "returned" /\ op = "get") =>
     /\ \A k \in 1..Len(ret.map) :
          /\ ret.map[k].key.oid \notin CallerObjects
          /\ \E i \in 1..Len(callerQueries) :
               \E owned \in getEnginesForCameraIDs(store, callerQueries[i].cameraIDs) :
                  /\ ret.map[k].key = [callerQueries[i] EXCEPT !.oid = ret.map[k].key.oid,
                                                               !.cameraIDs = owned.cameraIDs]
                  /\ ret.map[k].value.engine = owned.engine.type
     /\ \A k, l \in 1..Len(ret.map) : ret.map[k].key.oid = ret.map[l].key.oid => k = l

\* a map with the entries of two engines for one query of the caller, next to
\* an entry for another query
C4_Witness ==
  /\ qPhase = "returned"
  /\ op = "get"
  /\ Len(callerQueries) = 2
  /\ Len(ret.map) = 3
  /\ \E k, l \in 1..Len(ret.map) :
        k # l /\ ret.map[k].key.oid.i = ret.map[l].key.oid.i
              /\ ret.map[k].key.cameraIDs # ret.map[l].key.cameraIDs

\* the media the engines generated for the results of the running operation,
\* before _sortMedia
Produced == MediaArray(op, results)

ProducedIDs == {Produced[k].id : k \in 1..Len(Produced)} \ {NoMediaID}

\* C5: executeMediaQueries returns exactly one item of every identity that
\* some result fragment produced, and every produced item without identity,
\* once; it returns nothing that was not produced.
C5_OnePerIdentity ==
  (qPhase = "returned" /\ op = "execute") =>
     /\ \A x \in ProducedIDs : Cardinality({j \in 1..Len(ret.media) : ret.media[j].id = x}) = 1
     /\ \A k \in 1..Len(Produced) :
          Produced[k].id = NoMediaID =>
             Cardinality({j \in 1..Len(ret.media) : ret.media[j] = Produced[k]}) = 1
     /\ Range(ret.media) \subseteq Range(Produced)

\* two fragments produced the same identity, and two items without identity
\* were produced
C5_Witness ==
  /\ qPhase = "returned"
  /\ op = "execute"
  /\ \E k, l \in 1..Len(Produced) :
        /\ Produced[k].id = Produced[l].id
        /\ Produced[k].id # NoMediaID
        /\ Produced[k].obj.of # Produced[l].obj.of
  /\ \E k, l \in 1..Len(Produced) :
        k # l /\ Produced[k].id = NoMediaID /\ Produced[l].id = NoMediaID
  /\ Len(ret.media) < Len(Produced)

\* no item stands before one of an earlier start time; items without a start
\* time stand last
InStartOrder(media) ==
  \A i, j \in 1..Len(media) :
     (i < j /\ media[j].start # None) =>
        (media[i].start # None /\ media[i].start[1] <= media[j].start[1])

\* C6: the media that executeMediaQueries returns, and the results of a
\* successful extendMediaQueries, are in the order of their start times.
C6_StartOrder ==
  (qPhase = "returned" /\ ret.kind \in {"media", "extended"}) => InStartOrder(ret.media)

\* the array that the last _sortMedia of the operation was handed
SortInput ==
  IF op = "extend" THEN Concat(callerResults, _convertQueryResultsToMedia("extend", results))
  ELSE Produced

\* an extension whose merged media have three start times and were not in
\* their order before the sort
C6_Witness ==
  /\ qPhase = "returned"
  /\ ret.kind = "extended"
  /\ Cardinality(StartTimes(ret.media)) >= 3
  /\ ~InStartOrder(SortInput)
  /\ \E k \in 1..Len(ret.media) : ret.media[k].start = None

\* the place of the first item of the array that has the key of `media`
FirstIndex(array, media) ==
  CHOOSE k \in 1..Len(array) :
     /\ MediaKey(array[k]) = MediaKey(media)
     /\ \A j \in 1..(k - 1) : MediaKey(array[j]) # MediaKey(media)

\* C7: every item of the sorted output is the first item of its identity in
\* the input of the sort, and two items of the output with the same start
\* time stand in the order of those first occurrences.
C7_Stable ==
  (qPhase = "returned" /\ ret.kind \in {"media", "extended"}) =>
     /\ \A i \in 1..Len(ret.media) :
          /\ \E k \in 1..Len(SortInput) : MediaKey(SortInput[k]) = MediaKey(ret.media[i])
          /\ ret.media[i] = SortInput[FirstIndex(SortInput, ret.media[i])]
     /\ \A i, j \in 1..Len(ret.media) :
          (i < j /\ ret.media[i].start = ret.media[j].start) =>
             FirstIndex(SortInput, ret.media[i]) < FirstIndex(SortInput, ret.media[j])

\* the output holds two items of one start time, and an item that the input
\* held twice, the second time before an item of the output
C7_Witness ==
  /\ qPhase = "returned"
  /\ ret.kind = "media"
  /\ \E i, j \in 1..Len(ret.media) :
        i # j /\ ret.media[i].start = ret.media[j].start /\ ret.media[i].id # ret.media[j].id
  /\ \E k, l, m \in 1..Len(SortInput) :
        k < l /\ l < m /\ SortInput[k].id = SortInput[l].id /\ SortInput[k].id # NoMediaID
              /\ SortInput[m] \in Range(ret.media)

\* C8 as stated: the chunk queries sent to the engines start (later) at the
\* latest or end (earlier) at the earliest start time of the prior results,
\* and their other fields, apart from the cameras of the engine, are those of
\* the original query.
C8_ChunkQueryKeepsOtherFields ==
  (qPhase = "handling" /\ op = "extend") =>
     \A c \in calls :
        LET original == callerQueries[c.i]
            latest == getTimeFromResults("latest", callerResults)
            earliest == getTimeFromResults("earliest", callerResults)
        IN  /\ c.query.type = original.type
            /\ c.query.limit = original.limit
            /\ ext.direction = "later" =>
                  /\ c.query.start = (IF latest # None THEN latest ELSE original.start)
                  /\ c.query.end = original.end
            /\ ext.direction = "earlier" =>
                  /\ c.query.end = (IF earliest # None THEN earliest ELSE original.end)
                  /\ c.query.start = original.start

\* the largest and the smallest start time of the media, by their definition
IsLatest(t, media) ==
  /\ \E k \in 1..Len(media) : media[k].start = Some(t)
  /\ \A k \in 1..Len(media) : media[k].start # None => media[k].start[1] <= t
IsEarliest(t, media) ==
  /\ \E k \in 1..Len(media) : media[k].start = Some(t)
  /\ \A k \in 1..Len(media) : media[k].start # None => media[k].start[1] >= t
NoStartTime(media) == \A k \in 1..Len(media) : media[k].start = None

\* C8 amended: the chunk queries sent to the engines start (later) at the
\* latest or end (earlier) at the earliest start time of the prior results and
\* keep the other time bound and the type of the original query; without a
\* start time in the prior results both bounds are the original ones; their
\* limit is the chunk size and their cameras are cameras of the original.
C8_ChunkQueryBounds ==
  (qPhase = "handling" /\ op = "extend") =>
     \A c \in calls :
        LET original == callerQueries[c.i]
        IN  /\ c.query.type = original.type
            /\ c.query.limit = Some(ext.chunkSize)
            /\ c.query.cameraIDs \subseteq original.cameraIDs
            /\ NoStartTime(callerResults) =>
                  c.query.start = original.start /\ c.query.end = original.end
            /\ (ext.direction = "later" /\ ~NoStartTime(callerResults)) =>
                  /\ c.query.start # None /\ IsLatest(c.query.start[1], callerResults)
                  /\ c.query.end = original.end
            /\ (ext.direction = "earlier" /\ ~NoStartTime(callerResults)) =>
                  /\ c.query.end # None /\ IsEarliest(c.query.end[1], callerResults)
                  /\ c.query.start = original.start

\* chunk queries of an extension to earlier media are in flight, and the prior
\* results have several start times, none of them a bound of the original
C8_Witness ==
  /\ qPhase = "handling"
  /\ op = "extend"
  /\ ext.direction = "earlier"
  /\ Cardinality(StartTimes(callerResults)) >= 2
  /\ \E c \in calls : c.query.end # callerQueries[c.i].end /\ callerQueries[c.i].start # None

\* the media of the new chunk of the running extension
NewChunkMedia == _convertQueryResultsToMedia("extend", results)

IDsOf(media) == {media[k].id : k \in 1..Len(media)} \ {NoMediaID}

\* C9: the results of a successful extendMediaQueries hold every prior item,
\* the items of the new chunk whose identity is not among the prior ones, and
\* nothing else; no identity occurs twice.
C9_ExtendMerges ==
  (qPhase = "returned" /\ ret.kind = "extended") =>
     /\ Range(callerResults) \subseteq Range(ret.media)
     /\ Range(ret.media) \subseteq Range(callerResults) \cup Range(NewChunkMedia)
     /\ \A m \in Range(NewChunkMedia) :
          m \in Range(ret.media) <=> (m.id = NoMediaID \/ m.id \notin IDsOf(callerResults))
     /\ \A i, j \in 1..Len(ret.media) :
          (ret.media[i].id = ret.media[j].id /\ ret.media[i].id # NoMediaID) => i = j
     /\ \A i, j \in 1..Len(ret.media) : ret.media[i] = ret.media[j] => i = j

\* the new chunk brought an identity that the prior results hold and one that
\* they do not hold
C9_Witness ==
  /\ qPhase = "returned"
  /\ ret.kind = "extended"
  /\ \E m \in Range(NewChunkMedia) : m.id \in IDsOf(callerResults)
  /\ \E m \in Range(NewChunkMedia) : m.id # NoMediaID /\ m.id \notin IDsOf(callerResults)

\* C10: extendMediaQueries returns null exactly when the results of the chunk
\* queries make no media item, and then the media and the queries in the
\* hands of the caller are as they were.
C10_NullWhenChunkEmpty ==
  [][(qPhase = "handling" /\ op = "extend" /\ qPhase' = "returned") =>
        /\ ret'.kind \in {"null", "extended"}
        /\ ret'.kind = "null" <=> MediaArray("extend", results) = << >>
        /\ ret'.kind = "null" => (callerResults' = callerResults /\ callerQueries' = callerQueries)]_vars

\* an extension returned null although the engines answered with results, and
\* the caller holds media
C10_Witness ==
  /\ qPhase = "returned"
  /\ op = "extend"
  /\ ret.kind = "null"
  /\ results # << >>
  /\ callerResults # << >>


(***************************************************************************)
(* Properties of the freshness, the capabilities and the metadata.         *)
(***************************************************************************)
\* C11: areMediaQueriesResultsFresh answers true exactly when, for every
\* query and every engine that owns cameras of the query, the engine's max
\* age of the re-scoped query is null or resultsTimestamp + maxAge >= now.
C11_FreshIffNoneStale ==
  fresh.kind = "returned" =>
    (fresh.ret <=>
       \A i \in 1..Len(fresh.queries) :
         \A owned \in getEnginesForCameraIDs(store, fresh.queries[i].cameraIDs) :
            LET maxAgeSeconds == fresh.maxAge[[i |-> i, engine |-> owned.engine,
                                               query |-> Rescoped(fresh.queries[i], i, owned)]]
            IN  \/ maxAgeSeconds = None
                \/ fresh.resultsTimestamp + maxAgeSeconds[1] >= fresh.now)

\* fresh results of two queries: one engine answers null, another a max age
\* that ends exactly now
C11_Witness ==
  /\ fresh.kind = "returned"
  /\ fresh.ret
  /\ Len(fresh.queries) > 1
  /\ \E c \in DOMAIN fresh.maxAge : fresh.maxAge[c] = None
  /\ \E c \in DOMAIN fresh.maxAge :
        /\ fresh.maxAge[c] # None
        /\ fresh.resultsTimestamp + fresh.maxAge[c][1] = fresh.now

\* the cameras getAggregateCameraCapabilities was asked about: the subset, or
\* every camera of the store
AskedCameras == IF caps.cameraIDs = None THEN StoreIDs(store) ELSE caps.cameraIDs[1]

\* C12: every flag of getAggregateCameraCapabilities is the OR of that flag
\* over the cameras of the subset, or over all the cameras of the store when
\* no subset is given: it is true iff at least one of those cameras has it.
C12_AggregateIsOr ==
  caps.kind = "returned" =>
    /\ DOMAIN caps.ret = Flags
    /\ \A flag \in Flags :
          caps.ret[flag] <=> \E id \in AskedCameras \cap StoreIDs(store) :
                                /\ caps.engineCaps[id] # None
                                /\ caps.engineCaps[id][1][flag]

\* no subset, two cameras in the store: a flag only the first camera has, a
\* flag only the second has, and a flag none has
C12_Witness ==
  /\ caps.kind = "returned"
  /\ caps.cameraIDs = None
  /\ \A id \in StoreIDs(store) : caps.engineCaps[id] # None
  /\ caps.engineCaps["a"][1]["supportsClips"] /\ ~caps.engineCaps["b"][1]["supportsClips"]
  /\ ~caps.engineCaps["a"][1]["supportsTimeline"] /\ caps.engineCaps["b"][1]["supportsTimeline"]
  /\ caps.ret["supportsClips"] /\ caps.ret["supportsTimeline"]
  /\ ~caps.ret["canFavoriteRecordings"]

\* what the engines answered to getMediaMetadata for one facet
Answered(facet) ==
  UNION {meta.replies[k].metadata[1][facet][1] :
           k \in {j \in 1..Len(meta.replies) : /\ meta.replies[j].metadata # None
                                               /\ meta.replies[j].metadata[1][facet] # None}}

\* C13: getMediaMetadata returns the union of what / where / days over all
\* the engines of the store, whatever the order in which the engines
\* answered; it returns null when all three unions are empty, and an object
\* without the empty facets otherwise.
C13_MetadataIsUnion ==
  meta.phase = "returned" =>
    /\ {meta.replies[k].engine : k \in 1..Len(meta.replies)} = getAllEngines(store)
    /\ Len(meta.replies) = Cardinality(getAllEngines(store))
    /\ IF \A facet \in {"what", "where", "days"} : Answered(facet) = {}
       THEN meta.ret = None
       ELSE /\ meta.ret # None
            /\ \A facet \in {"what", "where", "days"} :
                  IF Answered(facet) = {} THEN meta.ret[1][facet] = None
                  ELSE meta.ret[1][facet] = Some(Answered(facet))

\* both engines answered overlapping facets, the second engine of the store
\* first; one facet stays empty and is left out
C13_Witness ==
  /\ meta.phase = "returned"
  /\ Len(meta.replies) = 2
  /\ meta.replies[1].engine = store[2].engine
  /\ \A k \in 1..2 : meta.replies[k].metadata # None /\ meta.replies[k].metadata[1].what # None
  /\ meta.replies[1].metadata[1].what[1] # meta.replies[2].metadata[1].what[1]
  /\ meta.replies[1].metadata[1].what[1] # {}
  /\ meta.replies[2].metadata[1].what[1] # {}
  /\ meta.ret # None
  /\ meta.ret[1].where = None
  /\ meta.ret[1].days # None

(***************************************************************************)
(* Properties of the federation.                                           *)
(***************************************************************************)
\* the queries handed to the running (or last) _handleQuery
SentQueries == IF op = "extend" THEN ext.newChunkQueries ELSE callerQueries

\* the cameras of the store that an engine owns
CamerasOf(engine) == {store[k].id : k \in {j \in 1..Len(store) : store[j].engine = engine}}

\* the queries of SentQueries of which the store owns no camera
Unowned == {i \in 1..Len(SentQueries) : SentQueries[i].cameraIDs \cap StoreIDs(store) = {}}

\* C14: camera IDs that no engine owns are dropped: no engine is called with
\* a camera ID it does not own, a query of which no camera is owned calls no
\* engine and has no entry in the results, and the operation returns (a map
\* or media, however empty) all the same.
C14_UnownedDropped ==
  /\ \A c \in calls : c.query.cameraIDs # {} /\ c.query.cameraIDs \subseteq CamerasOf(c.engine)
  /\ \A c \in calls : c.i \notin Unowned
  /\ \A k \in 1..Len(results) :
        /\ results[k].key.oid.i \notin Unowned
        /\ results[k].key.cameraIDs \subseteq StoreIDs(store)
  /\ (qPhase = "returned" /\ Unowned = 1..Len(SentQueries)) =>
        /\ ret.kind \in {"map", "media", "null"}
        /\ ret.map = << >>
        /\ ret.media = << >>

\* a returned map for a query of an unowned camera and a query of an owned and
\* an unowned camera: one entry, for the owned camera
C14_Witness ==
  /\ qPhase = "returned"
  /\ op = "get"
  /\ Unowned = {1}
  /\ Len(SentQueries) = 2
  /\ SentQueries[2].cameraIDs \ StoreIDs(store) # {}
  /\ Len(ret.map) = 1
  /\ ret.map[1].key.cameraIDs = {"a"}

\* C15: when _handleQuery starts, every query and every engine that owns a
\* non-empty subset S of its cameras gets exactly one call: of the method of
\* the query's type (getEvents, getRecordings, getRecordingSegments), with a
\* copy of the query whose cameraIDs is S; there is no other call, then or
\* later, and the caller's queries stay as they were.
C15_OneCallPerQueryAndEngine ==
  [][ /\ (qPhase # "handling" /\ qPhase' = "handling") =>
           /\ \A i \in 1..Len(SentQueries') :
                \A owned \in getEnginesForCameraIDs(store, SentQueries'[i].cameraIDs) :
                   /\ owned.cameraIDs # {}
                   /\ Cardinality({c \in calls' : c.i = i /\ c.engine = owned.engine}) = 1
                   /\ \A c \in {d \in calls' : d.i = i /\ d.engine = owned.engine} :
                         /\ c.query = [SentQueries'[i] EXCEPT !.oid = c.query.oid,
                                                              !.cameraIDs = owned.cameraIDs]
                         /\ c.query.oid # SentQueries'[i].oid
                         /\ c.method = CASE SentQueries'[i].type = "Event" -> "getEvents"
                                         [] SentQueries'[i].type = "Recording" -> "getRecordings"
                                         [] SentQueries'[i].type = "RecordingSegments" -> "getRecordingSegments"
           /\ \A c \in calls' :
                /\ c.i \in 1..Len(SentQueries')
                /\ \E owned \in getEnginesForCameraIDs(store, SentQueries'[c.i].cameraIDs) :
                      owned.engine = c.engine
      /\ qPhase = "handling" => (calls' \subseteq calls /\ SentQueries' = SentQueries)
      /\ (qPhase = "handling" \/ op' = "extend") => callerQueries' = callerQueries
    ]_vars

\* _handleQuery has just started on a recording segments query of one engine
\* and an event query of two
C15_Witness ==
  /\ qPhase = "handling"
  /\ op = "get"
  /\ results = << >>
  /\ Cardinality(calls) = 3
  /\ {c.method : c \in calls} = {"getRecordingSegments", "getEvents"}
  /\ \E c, d \in calls : c.i = d.i /\ c.engine # d.engine /\ c.query.cameraIDs # d.query.cameraIDs

\* the engines that own cameras of a query, with the cameras each owns
Owners(query) == getEnginesForCameraIDs(store, query.cameraIDs)

\* the media the engines generate for the calls they answered
AnsweredMedia ==
  UNION {Range(GenerateMedia("execute", a.call.query, a.result)) : a \in answered}

\* C20: one event query over the cameras of k engines, every one of which
\* answers with a result entry: getEvents returns a map of k entries, one per
\* engine and with that engine's answer; executeMediaQueries returns the
\* media of all k fragments (one item per identity, every item when the
\* identities differ) in the order of their start times.
C20_FederationEndToEnd ==
  ( /\ qPhase = "returned"
    /\ op \in {"get", "execute"}
    /\ Len(callerQueries) = 1
    /\ callerQueries[1].type = "Event"
    /\ {a.call.engine : a \in answered} = {o.engine : o \in Owners(callerQueries[1])} )
  =>
    /\ op = "get" =>
         /\ Len(ret.map) = Cardinality(Owners(callerQueries[1]))
         /\ \A a \in answered :
              Cardinality({k \in 1..Len(ret.map) : /\ ret.map[k].key = a.call.query
                                                   /\ ret.map[k].value = a.result}) = 1
    /\ op = "execute" =>
         /\ ret.kind = "media"
         /\ InStartOrder(ret.media)
         /\ Range(ret.media) \subseteq AnsweredMedia
         /\ \A m \in AnsweredMedia : \E j \in 1..Len(ret.media) : MediaKey(ret.media[j]) = MediaKey(m)
         /\ (\A m, n \in AnsweredMedia : MediaKey(m) = MediaKey(n) => m = n) =>
               /\ Range(ret.media) = AnsweredMedia
               /\ Len(ret.media) = Cardinality(AnsweredMedia)

\* executeMediaQueries of one event query over two engines: both answered,
\* four media of different identities come back from the two fragments
C20_Witness ==
  /\ qPhase = "returned"
  /\ op = "execute"
  /\ Len(callerQueries) = 1
  /\ callerQueries[1].type = "Event"
  /\ Cardinality(Owners(callerQueries[1])) = 2
  /\ Cardinality(answered) = 2
  /\ Len(ret.media) = 4
  /\ Cardinality({ret.media[j].obj.of : j \in 1..Len(ret.media)}) = 2

\* C21: when _handleQuery starts, all its engine calls are in flight
\* together; it returns only when none is in flight any more, the map then
\* holds the entry of every call that was answered with one, and nothing is
\* put into a map that was returned.
C21_ReturnsAfterAllSettled ==
  [][ /\ (qPhase # "handling" /\ qPhase' = "handling") =>
           /\ calls' = Dispatch(SentQueries')
           /\ results' = << >>
      /\ qPhase' = "returned" =>
           /\ calls' = {}
           /\ Len(results') = Cardinality(answered')
           /\ \A a \in answered' :
                \E k \in 1..Len(results') : /\ results'[k].key = a.call.query
                                            /\ results'[k].value = a.result
           /\ op' = "get" => ret'.map = results'
      /\ (qPhase = "returned" /\ qPhase' = "returned") => (results' = results /\ ret' = ret)
    ]_vars

\* getEvents of two queries returned the entries of three engine calls that
\* were in flight together
C21_Witness ==
  /\ qPhase = "returned"
  /\ op = "get"
  /\ Cardinality(Dispatch(callerQueries)) = 3
  /\ Cardinality(answered) = 3
  /\ Len(ret.map) = 3

\* the entries of the results map whose query and result are both of type
\* Event or both of type Recording, and whose engine type has an engine in
\* the store
Matched ==
  {k \in 1..Len(results) :
     /\ results[k].key.type = results[k].value.type
     /\ results[k].key.type \in {"Event", "Recording"}
     /\ \E j \in 1..Len(store) : store[j].engine.type = results[k].value.engine}

\* the media that the running operation generated (not the prior results)
Generated == {m \in Range(ret.media) : m.obj.gen = op}

\* C30: the media that executeMediaQueries and extendMediaQueries generate
\* come from the matched entries only, every item of a matched entry is
\* there (or another item of its identity), and an entry of a recording
\* segments query, of mismatched types or of an unknown engine type yields
\* nothing and no error.
C30_MediaOfMatchedPairsOnly ==
  (qPhase = "returned" /\ ret.kind \in {"media", "extended"}) =>
     /\ \A m \in Generated : \E k \in Matched : m.obj.of = results[k].key.oid
     /\ \A k \in Matched :
          \A m \in Range(GenerateMedia(op, results[k].key, results[k].value)) :
             \E n \in Range(ret.media) : MediaKey(n) = MediaKey(m)
     /\ (Matched = {} /\ op = "execute") => ret.media = << >>

\* executeMediaQueries with three entries: one matched, one of a recording
\* segments query, one of an unknown engine type or of mismatched types
C30_Witness ==
  /\ qPhase = "returned"
  /\ op = "execute"
  /\ Len(results) = 3
  /\ Cardinality(Matched) = 1
  /\ \E k \in 1..Len(results) : results[k].key.type = "RecordingSegments"
                                /\ results[k].value.type = "RecordingSegments"
  /\ \E k \in 1..Len(results) : results[k].value.engine = UnknownType
  /\ Len(ret.media) = 2


(***************************************************************************)
(* Properties of the carousel.                                             *)
(***************************************************************************)
\* C22: a carousel created after a destruction with savePosition starts at
\* the slide that was selected when the carousel was destroyed, slide 0
\* included and whatever startIndex carouselOptions holds.
C22_PositionPreserved ==
  (_carousel # None /\ _carousel[1].expected # None)
    => _carousel[1].startedAt = _carousel[1].expected[1]

\* C23: the carousel is never re-initialized between a 'scroll' event and the
\* 'settle' event that follows it.
C23_NeverCutsOffAScroll == ~cutOff

\* C29: at most one carousel is live, and none is live while the component is
\* disconnected.
C29_OneLiveNoneWhileDisconnected ==
  /\ Cardinality(liveCarousels) <= 1
  /\ (_carousel = None) = (liveCarousels = {})
  /\ ~connected => liveCarousels = {}

(***************************************************************************)
(* Properties of the ConditionsManager.                                    *)
(***************************************************************************)
\* the keys of a partial state all hold their values in the state already
Repeats(partial, current) ==
  \A key \in DOMAIN partial : key \in DOMAIN current /\ current[key] = partial[key]

\* C24: setState merges the partial state key by key into the state, and
\* every registered listener is called once by exactly those setState calls
\* after which the state differs from the state before; a partial state whose
\* keys all repeat their current values calls no listener.
C24_NotifiedExactlyOnChange ==
  [][partialState' # None =>
       LET partial == partialState'[1]
       IN  /\ DOMAIN condState' = DOMAIN condState \cup DOMAIN partial
           /\ \A key \in DOMAIN partial : condState'[key] = partial[key]
           /\ \A key \in DOMAIN condState \ DOMAIN partial : condState'[key] = condState[key]
           /\ \A listener \in ListenerIDs :
                calledTimes'[listener] =
                  calledTimes[listener] +
                    (IF listener \in listeners /\ condState' # condState THEN 1 ELSE 0)
           /\ Repeats(partial, condState) => calledTimes' = calledTimes]_vars

\* a listener heard of one change, and the setState that ran last set one of
\* the two keys of that state to the value it has
C24_Witness ==
  /\ partialState # None
  /\ \E listener \in listeners : calledTimes[listener] = 1
  /\ calledWith # None
  /\ calledWith[1][1] = condState
  /\ DOMAIN condState = {"fullscreen", "state"}
  /\ DOMAIN partialState[1] = {"state"}
  /\ Repeats(partialState[1], condState)

\* C25: whenever listeners are called, it is the registered listeners that
\* are called, on a change of the state and with (new state, previous state);
\* a listener that is not registered (never added, or removed) is not called.
C25_CalledWithNewAndPrevious ==
  [][/\ \A listener \in ListenerIDs :
          calledTimes'[listener] # calledTimes[listener] =>
            /\ listener \in listeners
            /\ condState' # condState
            /\ calledWith' = Some(<<condState', condState>>)
     /\ (condState' # condState /\ listeners # {}) =>
          \A listener \in listeners : calledTimes'[listener] = calledTimes[listener] + 1]_vars

\* listener_1 was called and then removed; a later change of the state
\* reached listener_2 only
C25_Witness ==
  /\ "listener_1" \notin listeners
  /\ "listener_2" \in listeners
  /\ calledTimes["listener_1"] = 1
  /\ calledTimes["listener_2"] = 2
  /\ calledWith = Some(<<condState, StateOf(Some(TRUE), None)>>)

\* the value of an entity in the state, if the state holds one
EntityValue(current, entity) ==
  IF "state" \in DOMAIN current /\ entity \in DOMAIN current["state"]
  THEN Some(current["state"][entity]) ELSE None

\* C28: evaluateConditions answers for the state as the last setState left
\* it: a condition with `state` holds iff the entity is in the state with one
\* of the listed values, a condition with `state_not` holds iff the entity is
\* in the state with none of the listed values, so both fail for an entity
\* that is absent; and a setState with the key `state` makes the given map the
\* whole entity-state map.
C28_StateConditions ==
  [][/\ evaluation' # None =>
          evaluation'[1].result =
            \A i \in DOMAIN evaluation'[1].conditions :
              LET condition == evaluation'[1].conditions[i]
                  value == EntityValue(condState', condition.entity)
              IN  IF condition.state # None
                  THEN value # None /\ value[1] \in condition.state[1]
                  ELSE value # None /\ value[1] \notin condition.state_not[1]
     /\ (partialState' # None /\ "state" \in DOMAIN partialState'[1]) =>
          condState'["state"] = partialState'[1]["state"]]_vars

\* binary_sensor.foo was off, a setState with only sensor.bar followed, and
\* the condition state_not: on of binary_sensor.foo is evaluated to false
C28_Witness ==
  /\ evaluation # None
  /\ evaluation[1].conditions = <<StateNotCondition("binary_sensor.foo", {"on"})>>
  /\ ~evaluation[1].result
  /\ EntityValue(condState, "sensor.bar") = Some("on")
  /\ calledWith # None
  /\ calledWith[1][1] = condState
  /\ EntityValue(calledWith[1][2], "binary_sensor.foo") = Some("off")

(***************************************************************************)
(* Properties of the InitializationManager.                                *)
(***************************************************************************)
Called(name) == \E i \in DOMAIN calledAPI : calledAPI[i] = name

CalledBefore(first, second) ==
  \A i, j \in DOMAIN calledAPI : (calledAPI[i] = first /\ calledAPI[j] = second) => i < j

\* C26: initializeMandatory calls the initializers of the languages and the
\* side-loaded elements before that of the cameras and that before the view;
\* having returned, it returned false and called nothing without hass, it
\* returned false and did not initialize cameras when the languages or the
\* side-loaded elements are not initialized or there is no config, it
\* returned false when the cameras are not initialized, it set the default
\* view or executed the view actions of the query string only when it
\* returned true, it returned true only with languages, side-loaded elements
\* and cameras initialized, and it connected the microphone only when
\* always_connected is configured.
C26_StagesInOrder ==
  /\ \A early \in {"loadLanguages", "sideLoadHomeAssistantElements"} :
       /\ CalledBefore(early, "initializeCamerasFromConfig")
       /\ CalledBefore(early, "connect")
  /\ \A late \in {"setViewDefaultWithNewQuery", "executeViewRelated", "update"} :
       /\ CalledBefore("initializeCamerasFromConfig", late)
       /\ CalledBefore("connect", late)
  /\ Called("connect") => cardConfig # None /\ cardConfig[1].always_connected
  /\ (Called("setViewDefaultWithNewQuery") \/ Called("executeViewRelated")) =>
       /\ mandatoryReturn = Some(TRUE)
       /\ Called("executeViewRelated") = hasViewRelatedActions
       /\ Called("setViewDefaultWithNewQuery") = ~hasViewRelatedActions
  /\ mandatoryPhase = "returned" =>
       /\ ~hass => mandatoryReturn = Some(FALSE) /\ calledAPI = << >>
       /\ (~({"languages", "side_load_elements"} \subseteq initialized) \/ cardConfig = None) =>
            /\ mandatoryReturn = Some(FALSE)
            /\ ~Called("initializeCamerasFromConfig")
       /\ "cameras" \notin initialized => mandatoryReturn = Some(FALSE)
       /\ mandatoryReturn = Some(TRUE) =>
            /\ hass
            /\ cardConfig # None
            /\ {"languages", "side_load_elements", "cameras"} \subseteq initialized

\* a full run without microphone: both stages ran, the default view was set
\* and the card updated
C26_Witness ==
  /\ mandatoryReturn = Some(TRUE)
  /\ calledAPI = <<"loadLanguages", "sideLoadHomeAssistantElements",
                   "initializeCamerasFromConfig", "setViewDefaultWithNewQuery", "update">>

\* C27: isInitializedMandatory is true only with a config, with the
\* languages, the side-loaded elements and the cameras initialized (and the
\* microphone connected when always_connected is configured) and with a view.
C27_InitializedOnlyWithView ==
  isInitializedMandatory = Some(TRUE) =>
    /\ cardConfig # None
    /\ {"languages", "side_load_elements", "cameras"} \subseteq initialized
    /\ cardConfig[1].always_connected => "microphone_connect" \in initialized
    /\ hasView

\* isInitializedMandatory is true after initializeMandatory set the view
C27_Witness ==
  /\ isInitializedMandatory = Some(TRUE)
  /\ mandatoryReturn = Some(TRUE)
  /\ Called("setViewDefaultWithNewQuery")

(***************************************************************************)
(* Properties of the pagination, the fan-out and the store.                *)
(***************************************************************************)
\* C31: a successful extendMediaQueries returns one extended query per input
\* query, in the order of the input, each with the type, the cameras and the
\* time bounds of the original and with the limit of the original (0 when it
\* has none) plus chunkSize; the chunk queries in flight carry the limit
\* chunkSize.
C31_ExtendedLimits ==
  /\ (qPhase = "handling" /\ op = "extend") =>
       \A c \in calls : c.query.limit = Some(ext.chunkSize)
  /\ (qPhase = "returned" /\ ret.kind = "extended") =>
       /\ Len(ret.queries) = Len(callerQueries)
       /\ \A i \in 1..Len(callerQueries) :
            LET original == callerQueries[i]
                extended == ret.queries[i]
            IN  /\ extended.type = original.type
                /\ extended.cameraIDs = original.cameraIDs
                /\ extended.start = original.start
                /\ extended.end = original.end
                /\ extended.limit =
                     Some((IF original.limit = None THEN 0 ELSE original.limit[1]) + ext.chunkSize)

\* an extension to later media of two queries, one without limit and one
\* with, returned; the chunk bounds differed from the original ones
C31_Witness ==
  /\ qPhase = "returned"
  /\ ret.kind = "extended"
  /\ ext.direction = "later"
  /\ ext.chunkSize = MaxChunkSize
  /\ Len(ret.queries) = 2
  /\ callerQueries[1].limit = None
  /\ callerQueries[2].limit # None
  /\ \E i \in 1..2 : ext.newChunkQueries[i].start # callerQueries[i].start

\* the orders in which the answered engine calls can have completed
CompletionOrders(done) ==
  {order \in [1..Cardinality(done) -> done] :
     \A j, k \in 1..Cardinality(done) : order[j] = order[k] => j = k}

\* the results map _handleQuery builds when the calls complete in that order
MapInOrder(order) ==
  [k \in 1..Len(order) |-> [key |-> order[k].call.query, value |-> order[k].result]]

StartSequence(media) == [k \in 1..Len(media) |-> media[k].start]

\* the media the answered fragments produce, whatever is merged
ProducedMedia(done) ==
  UNION {{media[k] : k \in 1..Len(media)} :
           media \in {EntryMedia("execute", [key |-> a.call.query, value |-> a.result]) : a \in done}}

\* items of one identity have one start time
OneStartPerIdentity(done) ==
  \A m, n \in ProducedMedia(done) : (m.id # NoMediaID /\ m.id = n.id) => m.start = n.start

\* C32 as stated: whatever the engines answered, the media executeMediaQueries
\* returns have the identities and the sequence of start times they would
\* have had with the engine calls completing in any other order.
C32_CompletionOrderIndependent ==
  (qPhase = "returned" /\ op = "execute") =>
     \A order \in CompletionOrders(answered) :
        LET media == _convertQueryResultsToMedia("execute", MapInOrder(order))
        IN  /\ IDsOf(media) = IDsOf(ret.media)
            /\ StartSequence(media) = StartSequence(ret.media)

\* C32: the identities of the media executeMediaQueries returns, and their
\* number, are those of any other completion order of the engine calls; the
\* sequence of start times is too when the items that share an identity share
\* their start time.
C32_IndependentForOneStartPerIdentity ==
  (qPhase = "returned" /\ op = "execute") =>
     \A order \in CompletionOrders(answered) :
        LET media == _convertQueryResultsToMedia("execute", MapInOrder(order))
        IN  /\ IDsOf(media) = IDsOf(ret.media)
            /\ Len(media) = Len(ret.media)
            /\ OneStartPerIdentity(answered) => StartSequence(media) = StartSequence(ret.media)

\* two engines answered, each with the same two identities at the same start
\* times, and two media were returned
C32_Witness ==
  /\ qPhase = "returned"
  /\ op = "execute"
  /\ Cardinality(answered) = 2
  /\ OneStartPerIdentity(answered)
  /\ \E a, b \in answered :
       /\ a # b
       /\ \E j \in 1..Len(a.result.payload), k \in 1..Len(b.result.payload) :
            /\ a.result.payload[j].id # NoMediaID
            /\ a.result.payload[j].id = b.result.payload[k].id
  /\ Len(ret.media) >= 2

\* the store entry initializeCameras adds for the camera at input position i
AddedEntry(i) ==
  [id |-> getCameraID(task[i].initializedConfig),
   config |-> task[i].initializedConfig,
   engine |-> task[i].engine]

\* C35: a failure of the ID validation is not rolled back: when the config
\* at input position k yields no ID or a duplicate ID, the store holds what
\* it held before the call followed by the cameras of the positions before
\* k, in input order, and none of the positions from k on; isInitialized()
\* is true when a camera was added before the failure.
C35_FailureNotRolledBack ==
  (initPhase = "failed" /\ initError.kind \in {"no_camera_id", "duplicate_camera_id"}) =>
     LET k == initError.pos
     IN  /\ k \in 1..Len(batch)
         /\ store = storeBefore \o [i \in 1..(k - 1) |-> AddedEntry(i)]
         /\ k > 1 => isInitialized

\* a list of three fails at its second config into an empty store: the
\* first camera stays, the third is not added
C35_Witness ==
  /\ initPhase = "failed"
  /\ initError.kind \in {"no_camera_id", "duplicate_camera_id"}
  /\ initError.pos = 2
  /\ Len(batch) = 3
  /\ storeBefore = << >>
  /\ Len(store) = 1
  /\ isInitialized

\* C36: the fan-out is all-or-nothing on failure: from the moment an engine
\* call dispatched by _handleQuery has rejected, the operation (getEvents,
\* getRecordings, getRecordingSegments, executeMediaQueries,
\* extendMediaQueries) is rejected and has returned neither a map nor media
\* nor queries, whatever the other engine calls answered or answer later.
C36_AllOrNothing ==
  rejections # {} =>
     /\ qPhase = "rejected"
     /\ ret = [NoRet EXCEPT !.kind = "error"]

\* extendMediaQueries is rejected by one engine call although another was
\* answered with results, while a third call is still in flight
C36_Witness ==
  /\ op = "extend"
  /\ qPhase = "rejected"
  /\ Cardinality(rejections) = 1
  /\ \E a \in answered : a.result.payload # << >>
  /\ calls # {}
  /\ results # << >>

\* every item of the new chunk has an identity that the prior results hold
ChunkAlreadyPresent ==
  \A m \in Range(NewChunkMedia) : m.id # NoMediaID /\ m.id \in IDsOf(callerResults)

\* C37 as stated: whenever extendMediaQueries returns a non-null result, the
\* returned results hold an item that was not in the prior results.
C37_MakesProgress ==
  (qPhase = "returned" /\ ret.kind = "extended") =>
     \E m \in Range(ret.media) : m \notin Range(callerResults)

\* C37 amended: a non-null result of extendMediaQueries means that the new
\* chunk was not empty; a chunk that is not empty and holds only items whose
\* identities the prior results hold is not treated like an empty chunk: the
\* call returns a non-null result whose items are the prior items.
C37_NonNullWithoutProgress ==
  (qPhase = "returned" /\ op = "extend") =>
     /\ ret.kind = "extended" => NewChunkMedia # << >>
     /\ (NewChunkMedia # << >> /\ ChunkAlreadyPresent) =>
           /\ ret.kind = "extended"
           /\ Range(ret.media) = Range(callerResults)

\* the chunk brought the item at the extreme start time again and nothing
\* else: the extension returned the prior items
C37_Witness ==
  /\ qPhase = "returned"
  /\ ret.kind = "extended"
  /\ ext.direction = "later"
  /\ callerResults # << >>
  /\ NewChunkMedia # << >>
  /\ ChunkAlreadyPresent
  /\ \A m \in Range(NewChunkMedia) : m.start # None /\ m.start = getTimeFromResults("latest", callerResults)
  /\ Range(ret.media) = Range(callerResults)

CameraIDsOf(s) == IF getCameraCount(s) = 0 THEN {} ELSE StoreIDs(s)

\* C34: the cameras of a list are added to the store at once: while
\* initializeCameras waits for its cameras the store is as it was at the
\* call, after a successful call it holds what it held followed by all the
\* cameras of the list, and what getCameraIDs returned since the call is
\* either the IDs from before the call or those with all the cameras of the
\* list.
C34_BatchAppliedAtomically ==
  /\ initPhase \in {"fetchEntityList", "running"} => store = storeBefore
  /\ initPhase = "done" =>
        /\ store = storeBefore \o [i \in 1..Len(batch) |-> AddedEntry(i)]
        /\ (lookup.op = "getCameraIDs" /\ lookup.call = submitted) =>
              lookup.ids \in {CameraIDsOf(storeBefore), CameraIDsOf(store)}

\* getCameraIDs ran when one of the two cameras of the list had returned, and
\* saw neither; the call then succeeded
C34_Witness ==
  /\ initPhase = "done"
  /\ Len(batch) = 2
  /\ lookup.op = "getCameraIDs"
  /\ lookup.call = submitted
  /\ lookup.returned = 1
  /\ lookup.ids = CameraIDsOf(storeBefore)
  /\ Len(store) = Len(storeBefore) + 2

(***************************************************************************)
(* Properties of the view factory.                                         *)
(***************************************************************************)
CameraOf(cameraID) == viewCameras[CHOOSE i \in 1..Len(viewCameras) : viewCameras[i].id = cameraID]

KnownCamera(cameraID) == \E i \in 1..Len(viewCameras) : viewCameras[i].id = cameraID

\* C38: with default_cycle_camera and no camera parameter, successive calls
\* of getViewDefault, each with the result of the one before as base view,
\* return the cameras that follow the starting camera in the list of the
\* cameras supporting the view, wrapping from the last to the first: the
\* first n calls on a list of n cameras return n different cameras and the
\* n-th returns the starting camera; a base camera that is not in the list
\* leads to the first camera.
C38_CyclesThroughCameras ==
  cycle.cameras # << >> =>
     LET list == getCameraIDsForViewName(viewCameras, cycle.view, None)
         n == Len(list)
         start == indexOf(list, cycle.start)
     IN  /\ n > 0
         /\ \A k \in 1..Len(cycle.cameras) : cycle.cameras[k] = list[((start + k) % n) + 1]
         /\ start < 0 => cycle.cameras[1] = list[1]
         /\ (start >= 0 /\ Len(cycle.cameras) >= n) =>
               /\ \A j, k \in 1..n : cycle.cameras[j] = cycle.cameras[k] => j = k
               /\ {cycle.cameras[k] : k \in 1..n} = {list[k] : k \in 1..n}
               /\ cycle.cameras[n] = cycle.start

\* three calls went through a list of three cameras from its second camera
\* and came back to it
C38_Witness ==
  /\ Len(cycle.cameras) = 3
  /\ Len(getCameraIDsForViewName(viewCameras, cycle.view, None)) = 3
  /\ indexOf(getCameraIDsForViewName(viewCameras, cycle.view, None), cycle.start) = 1
  /\ cycle.cameras[3] = cycle.start
  /\ viewRet.view.camera = cycle.start

\* the camera and the view name a call asked for
AskedCamera == RequestedCamera(viewRet.options)
AskedView ==
  IF viewRet.op = "getViewDefault" THEN DefaultViewName(viewRet.options, viewConfig[1])
  ELSE RequestedView(viewRet.options, viewConfig[1])
AskedUnknownCamera == AskedCamera = None \/ ~ KnownCamera(AskedCamera[1])
SupportingCameras(viewName) ==
  {viewCameras[i].id : i \in {j \in 1..Len(viewCameras) : SupportsView(viewCameras[j], viewName)}}
FirstSupporting(viewName) ==
  viewCameras[CHOOSE i \in 1..Len(viewCameras) :
                /\ SupportsView(viewCameras[i], viewName)
                /\ \A j \in 1..(i - 1) : ~ SupportsView(viewCameras[j], viewName)].id

\* the part of C39 that holds of both operations: a returned view names a
\* camera of the store whose capabilities allow the view's name, and
\* getViewByParameters replaces a missing or unknown camera by the first
\* camera supporting the view and throws ViewNoCameraError, with the view
\* name and the capabilities of the cameras, when there is none
C39_ViewsAreSupported ==
  /\ viewRet.kind = "view" =>
        /\ KnownCamera(viewRet.view.camera)
        /\ SupportsView(CameraOf(viewRet.view.camera), viewRet.view.view)
  /\ (viewRet.op = "getViewByParameters" /\ viewConfig # None /\ AskedUnknownCamera) =>
        IF SupportingCameras(AskedView) # {}
        THEN /\ viewRet.kind = "view"
             /\ viewRet.view.camera = FirstSupporting(AskedView)
             /\ viewRet.view.view = AskedView
        ELSE /\ viewRet.kind = "ViewNoCameraError"
             /\ viewRet.context.view = AskedView
             /\ viewRet.context.cameras_capabilities = CamerasToCapabilities

=============================================================================
